---- MODULE Spec2Model ----
(***************************************************************************)
(* A model of DatastoreMySQLStub (datastore_mysql_stub.py): the entity     *)
(* store, the block-cached ID allocator and the transaction layer, over a  *)
(* relational backend with one connection, commit/rollback and named       *)
(* advisory locks.                                                         *)
(*                                                                         *)
(* Strings are sequences of character codes, so that formatting, padding   *)
(* and comparison are computed as Python computes them on str values.      *)
(*                                                                         *)
(* Each handler is a function from a state record (the fields of the stub  *)
(* plus the backend's tables) to a state record; an action applies one     *)
(* handler to the current state.  The field "exc" of the record holds the  *)
(* exception that is propagating ("" when none), "fault" the number of     *)
(* statements the backend still executes before it raises an error at one  *)
(* statement (-1 when it raises none).                                     *)
(***************************************************************************)
EXTENDS Integers, Sequences, FiniteSets, TLC

----------------------------------------------------------------------------
\* Strings

\* str comparison a < b: byte-lexicographic
StrLess(a, b) ==
  \E i \in 1..Len(b) :
    /\ i <= Len(a) + 1
    /\ \A j \in 1..(i - 1) : a[j] = b[j]
    /\ (i = Len(a) + 1 \/ a[i] < b[i])

\* str(n) for n >= 0: the decimal digits, as character codes
RECURSIVE Str(_)
Str(n) == IF n < 10 THEN <<48 + n>> ELSE Str(n \div 10) \o <<48 + (n % 10)>>

\* s.zfill(w): zeros on the left up to width w
RECURSIVE ZFill(_, _)
ZFill(s, w) == IF Len(s) >= w THEN s ELSE ZFill(<<48>> \o s, w)

\* sep.join(parts)
RECURSIVE Join(_, _)
Join(sep, parts) ==
  IF parts = <<>> THEN <<>>
  ELSE IF Len(parts) = 1 THEN parts[1]
  ELSE parts[1] \o sep \o Join(sep, Tail(parts))

\* re.sub("[^\w\d_]", "", tableName): keeps letters, digits and "_"
IsWordChar(c) ==
  \/ c \in 48..57
  \/ c \in 65..90
  \/ c \in 97..122
  \/ c = 95

formatTableName(tableName) == SelectSeq(tableName, IsWordChar)

----------------------------------------------------------------------------
\* Keys and entities (entity_pb.Reference, entity_pb.EntityProto)

\* A path element; has_id / has_name are the protocol buffer's presence bits.
Elem(type, has_id, id, has_name, name) ==
  [type |-> type, has_id |-> has_id, id |-> id,
   has_name |-> has_name, name |-> name]

IdElem(type, id) == Elem(type, TRUE, id, FALSE, <<>>)
NameElem(type, name) == Elem(type, FALSE, 0, TRUE, name)

Key(app, name_space, path) ==
  [app |-> app, name_space |-> name_space, path |-> path]

\* An entity with one indexed property "p" holding the values vals.
Entity(key, entity_group, vals) ==
  [key |-> key, entity_group |-> entity_group, vals |-> vals]

\* _encode_path: "<kind>:<name or zero-padded id>" joined by "!"
EncodeElem(e) ==
  e.type \o <<58>> \o (IF e.has_name THEN e.name ELSE ZFill(Str(e.id), 10))

EncodePath(path) ==
  Join(<<33>>, [i \in 1..Len(path) |-> EncodeElem(path[i])])

\* __GetEntityKind: the type of the last path element
GetEntityKind(key) == key.path[Len(key.path)].type

\* the (app_id, name_space) pair of a key
NsOf(key) == <<key.app, key.name_space>>

\* the prefix part of __GetTablePrefix: "app_ns" with the characters outside
\* [A-Za-z0-9_] removed
TablePrefix(ns) == formatTableName(ns[1] \o <<95>> \o ns[2])

----------------------------------------------------------------------------
\* The universe of the model

\* the application the stub is constructed for ("a")
OwnApp == <<97>>

\* the id of another application
OtherApp == <<98>>

\* kinds "A" and "B", the key name "m", and the key name "0000000001"
KindA == <<65>>
KindB == <<66>>
NameM == <<109>>
NamePadded1 == <<48, 48, 48, 48, 48, 48, 48, 48, 48, 49>>

\* name spaces "" and "n" of the application
Ns0 == <<OwnApp, <<>> >>
Ns1 == <<OwnApp, <<110>> >>

\* the most id ranges one run issues, the most transactions it begins and
\* the most times a thread holds the connection lock
MaxIssues == 3
MaxTx == 2
MaxHeld == 3

\* the most cursors one run opens
MaxCursors == 2

NoGroup == <<0>>

----------------------------------------------------------------------------
\* The state record

VARIABLES
  namespaces,           \* self.__namespaces
  id_map,               \* self.__id_map: prefix -> <<next_id, block_size>>
  id_lock,              \* self.__id_lock is held
  tx_actions,           \* self.__tx_actions
  transactions,         \* self.__transactions: handle -> entity group
  inside_tx,            \* self.__inside_tx
  tx_lock,              \* self.__tx_lock is held
  connection_lock,      \* self.__connection_lock: owner thread (0: free), count
  current_transaction,  \* self.__current_transaction (0: None)
  next_tx_handle,       \* self.__next_tx_handle
  tx_writes,            \* self.__tx_writes: key -> entity
  tx_deletes,           \* self.__tx_deletes
  next_cursor_id,       \* self.__next_cursor_id
  cursors,              \* self.__cursors: cursor id -> QueryCursor
  indexes,              \* self.__indexes: the composite indexes, by app
  tables,               \* the connection's view of the namespace tables
  IdSeq,                \* the connection's view of table IdSeq
  durable,              \* what the backend has committed: tables and IdSeq
  locks,                \* the backend's named locks: name -> holding session
  dispatched,           \* the side-actions handed to the task queue
  issued,               \* history: the id ranges issued, in order
  served,               \* history: cursor id -> its query and its batches
  moved,                \* history: the indexes moved from DELETED to ERROR
  hist,                 \* history: the transaction now running
  ref,                  \* history: key -> the entity last put, if not deleted
  waiting,              \* the threads waiting in self.__connection_lock.acquire()
  peer,                 \* a second stub instance on the same backend
  updating              \* thread -> the _Dynamic_UpdateIndex call that has
                        \* passed its checks and not yet written the state

stubFields ==
  <<namespaces, id_map, id_lock, tx_actions, transactions, inside_tx, tx_lock,
    connection_lock, current_transaction, next_tx_handle, tx_writes,
    tx_deletes, next_cursor_id, cursors, indexes>>
backendFields == <<tables, IdSeq, durable, locks, dispatched>>
vars ==
  <<stubFields, backendFields, issued, served, moved, hist, ref, waiting, peer,
    updating>>

\* the current state as a record; a handler maps it to the next one
Now(fault) ==
  [namespaces |-> namespaces, id_map |-> id_map, id_lock |-> id_lock,
   tx_actions |-> tx_actions, transactions |-> transactions,
   inside_tx |-> inside_tx, tx_lock |-> tx_lock,
   connection_lock |-> connection_lock,
   current_transaction |-> current_transaction,
   next_tx_handle |-> next_tx_handle, tx_writes |-> tx_writes,
   tx_deletes |-> tx_deletes, next_cursor_id |-> next_cursor_id,
   cursors |-> cursors, indexes |-> indexes, tables |-> tables, IdSeq |-> IdSeq,
   durable |-> durable, locks |-> locks, dispatched |-> dispatched,
   issued |-> issued, served |-> served, moved |-> moved,
   exc |-> "", fault |-> fault, ret |-> 0, req |-> <<>>, resp |-> <<>>]

Becomes(S) ==
  /\ namespaces' = S.namespaces
  /\ id_map' = S.id_map
  /\ id_lock' = S.id_lock
  /\ tx_actions' = S.tx_actions
  /\ transactions' = S.transactions
  /\ inside_tx' = S.inside_tx
  /\ tx_lock' = S.tx_lock
  /\ connection_lock' = S.connection_lock
  /\ current_transaction' = S.current_transaction
  /\ next_tx_handle' = S.next_tx_handle
  /\ tx_writes' = S.tx_writes
  /\ tx_deletes' = S.tx_deletes
  /\ next_cursor_id' = S.next_cursor_id
  /\ cursors' = S.cursors
  /\ indexes' = S.indexes
  /\ tables' = S.tables
  /\ IdSeq' = S.IdSeq
  /\ durable' = S.durable
  /\ locks' = S.locks
  /\ dispatched' = S.dispatched
  /\ issued' = S.issued
  /\ served' = S.served
  /\ moved' = S.moved

Raise(S, e) == IF S.exc = "" THEN [S EXCEPT !.exc = e] ELSE S

\* statements in sequence: an exception raised by the first skips the rest
Then(S, Rest(_)) == IF S.exc # "" THEN S ELSE Rest(S)

----------------------------------------------------------------------------
\* The backend connection (MySQLdb)

NoTables == [Entities |-> {}, EntitiesByProperty |-> {}]

\* the rows of a table of a name space; none when it was never created
Rows(tabs, prefix, table) ==
  IF prefix \in DOMAIN tabs THEN tabs[prefix][table] ELSE {}

\* the content of all tables, whether or not empty tables were created
Content(tabs) ==
  UNION {{<<q, u, x>> : x \in tabs[q][u]} :
         <<q, u>> \in (DOMAIN tabs) \X {"Entities", "EntitiesByProperty"}}

\* conn.commit() and conn.rollback()
ConnCommit(S) ==
  [S EXCEPT !.durable = [tables |-> S.tables, IdSeq |-> S.IdSeq]]

ConnRollback(S) ==
  [S EXCEPT !.tables = S.durable.tables, !.IdSeq = S.durable.IdSeq]

\* _ExecuteSQL of one statement whose effect is T: the backend raises at
\* the statement at which its fault count has run out
ExecuteSQL(S, T) ==
  IF S.exc # "" THEN S
  ELSE IF S.fault = 0
    THEN [S EXCEPT !.exc = "OperationalError", !.fault = -1]
  ELSE [T EXCEPT !.fault = IF S.fault > 0 THEN S.fault - 1 ELSE S.fault]

----------------------------------------------------------------------------
\* Namespace manager

\* __ConfigureNamespace: the statements of _NAMESPACE_SCHEMA, then a commit.
\* CREATE TABLE of a table that exists raises an error that is no
\* IntegrityError; INSERT IGNORE INTO IdSeq leaves an existing row alone.
ConfigureNamespace(S, prefix) ==
  IF prefix \in DOMAIN S.tables THEN Raise(S, "OperationalError")
  ELSE
    ConnCommit(
      [S EXCEPT
         !.tables = [q \in DOMAIN S.tables \cup {prefix} |->
                       IF q = prefix THEN NoTables ELSE S.tables[q]],
         !.IdSeq = [q \in DOMAIN S.IdSeq \cup {prefix} |->
                      IF q \in DOMAIN S.IdSeq THEN S.IdSeq[q] ELSE 1]])

\* __GetTablePrefix: the state after the call; its value is TablePrefix(ns)
GetTablePrefix(S, ns) ==
  IF S.exc # "" \/ ns \in S.namespaces THEN S
  ELSE ConfigureNamespace([S EXCEPT !.namespaces = @ \cup {ns}],
                          TablePrefix(ns))

\* __GetTablePrefix for each of a sequence of name spaces, in order
RECURSIVE GetTablePrefixes(_, _)
GetTablePrefixes(S, nss) ==
  IF nss = <<>> THEN S
  ELSE GetTablePrefixes(GetTablePrefix(S, Head(nss)), Tail(nss))

----------------------------------------------------------------------------
\* ID allocator

\* self.__id_map.get(prefix, (0, 0))
IdMapGet(S, prefix) ==
  IF prefix \in DOMAIN S.id_map THEN S.id_map[prefix] ELSE <<0, 0>>

\* the block the allocator reserves when it refills
BlockSize(size) == IF size > 1000 THEN size ELSE 1000

\* whether __AllocateIds refills the cache from table IdSeq
AllocRefills(size, block_size) == size >= block_size

\* UPDATE IdSeq SET next_id = next_id + block, which must change one row
UpdateIdSeq(S, prefix, block) ==
  IF prefix \notin DOMAIN S.IdSeq
    THEN Raise(ExecuteSQL(S, S), "AssertionError")
    ELSE ExecuteSQL(S, [S EXCEPT !.IdSeq[prefix] = @ + block])

\* the end of __AllocateIds: the range starts at next_id, the rest of the
\* block is cached, the lock is released
TakeIds(S, prefix, size, next_id, block_size) ==
  [S EXCEPT
     !.ret = next_id,
     !.id_map = [q \in DOMAIN S.id_map \cup {prefix} |->
                   IF q = prefix THEN <<next_id + size, block_size - size>>
                   ELSE S.id_map[q]],
     !.id_lock = FALSE,
     !.issued = Append(@, [prefix |-> prefix, start |-> next_id,
                           size |-> size])]

\* __AllocateIds: S.ret is the first id of the range
AllocateIds(S, prefix, size) ==
  IF S.exc # "" THEN S
  ELSE IF S.id_lock THEN Raise(S, "Blocked")
  ELSE IF AllocRefills(size, IdMapGet(S, prefix)[2])
    THEN Then(UpdateIdSeq([S EXCEPT !.id_lock = TRUE], prefix, BlockSize(size)),
              LAMBDA S2 : TakeIds(S2, prefix, size,
                                  S2.IdSeq[prefix] - BlockSize(size),
                                  BlockSize(size)))
  ELSE TakeIds(S, prefix, size, IdMapGet(S, prefix)[1], IdMapGet(S, prefix)[2])

----------------------------------------------------------------------------
\* Entity store: rows of the Entities and EntitiesByProperty tables

\* (app, ns) tuples as sorted() compares them
NsLess(a, b) == StrLess(a[1], b[1]) \/ (a[1] = b[1] /\ StrLess(a[2], b[2]))

\* the least string of a set
MinStr(strs) == CHOOSE x \in strs : \A y \in strs : ~StrLess(y, x)

\* the strings of a set in ascending order
RECURSIVE SortedStrs(_)
SortedStrs(strs) ==
  IF strs = {} THEN <<>>
  ELSE <<MinStr(strs)>> \o SortedStrs(strs \ {MinStr(strs)})

Range(seq) == {seq[i] : i \in 1..Len(seq)}

\* the entity a SELECT by the path of key finds in tables tabs: <<entity>>
\* or <<>>
Lookup(tabs, key) ==
  IF \E r \in Rows(tabs, TablePrefix(NsOf(key)), "Entities") :
       r.path = EncodePath(key.path)
    THEN <<(CHOOSE r \in Rows(tabs, TablePrefix(NsOf(key)), "Entities") :
              r.path = EncodePath(key.path)).entity>>
    ELSE <<>>

\* __DeleteRows: DELETE FROM <prefix>_<table> WHERE __path__ IN (paths)
DeleteRows(S, prefix, paths, table) ==
  ExecuteSQL(S, [S EXCEPT !.tables[prefix][table] =
                            {r \in @ : r.path \notin paths}])

\* the key of the first group of itertools.groupby over the keys sorted by
\* (app, name_space), and the keys of that group
FirstNs(keys) ==
  CHOOSE ns \in {NsOf(k) : k \in keys} : \A k \in keys : ~NsLess(NsOf(k), ns)

FirstGroup(keys) == {k \in keys : NsOf(k) = FirstNs(keys)}

\* __DeleteEntityRows: the loop over the groups returns from its first
\* iteration
DeleteEntityRows(S, keys, table) ==
  IF S.exc # "" \/ keys = {} THEN S
  ELSE Then(GetTablePrefix(S, FirstNs(keys)),
            LAMBDA S1 : DeleteRows(S1, TablePrefix(FirstNs(keys)),
                                   {EncodePath(k.path) : k \in FirstGroup(keys)},
                                   table))

\* __DeleteIndexEntries
DeleteIndexEntries(S, keys) == DeleteEntityRows(S, keys, "EntitiesByProperty")

\* the row RowGenerator of __InsertEntities yields for an entity
EntityRow(e) ==
  [path |-> EncodePath(e.key.path), kind |-> GetEntityKind(e.key),
   entity |-> e]

\* the rows RowGenerator of __InsertIndexEntries yields for an entity: one
\* for each value of its property
IndexRows(e) ==
  {[kind |-> GetEntityKind(e.key), name |-> "p", value |-> v,
    path |-> EncodePath(e.key.path)] : v \in e.vals}

\* REPLACE INTO <prefix>_Entities of the rows of a group, in order: a row
\* takes the place of the row with its __path__
RECURSIVE ReplaceInto(_, _)
ReplaceInto(rows, new) ==
  IF new = <<>> THEN rows
  ELSE ReplaceInto({r \in rows : r.path # Head(new).path} \cup {Head(new)},
                   Tail(new))

\* the entities of a sequence whose table prefix is prefix, in order
OfPrefix(entities, prefix) ==
  SelectSeq(entities, LAMBDA e : TablePrefix(NsOf(e.key)) = prefix)

\* the statement for one prefix group: REPLACE INTO the entity table, or
\* INSERT IGNORE INTO the index table
InsertGroup(S, group, prefix, table) ==
  IF table = "Entities"
    THEN [S EXCEPT !.tables[prefix].Entities =
            ReplaceInto(@, [i \in 1..Len(group) |-> EntityRow(group[i])])]
    ELSE [S EXCEPT !.tables[prefix].EntitiesByProperty =
            @ \cup UNION {IndexRows(e) : e \in Range(group)}]

\* one statement for each prefix group, prefixes ascending
RECURSIVE InsertGroups(_, _, _, _)
InsertGroups(S, entities, prefixes, table) ==
  IF S.exc # "" \/ prefixes = <<>> THEN S
  ELSE InsertGroups(
         ExecuteSQL(S, InsertGroup(S, OfPrefix(entities, Head(prefixes)),
                                   Head(prefixes), table)),
         entities, Tail(prefixes), table)

\* __InsertEntities and __InsertIndexEntries: the prefix of every entity is
\* looked up first, then the groups are written
InsertRows(S, entities, table) ==
  InsertGroups(
    GetTablePrefixes(S, [i \in 1..Len(entities) |-> NsOf(entities[i].key)]),
    entities,
    SortedStrs({TablePrefix(NsOf(e.key)) : e \in Range(entities)}),
    table)

InsertEntities(S, entities) == InsertRows(S, entities, "Entities")

InsertIndexEntries(S, entities) == InsertRows(S, entities, "EntitiesByProperty")

\* __PutEntities
PutEntities(S, entities) ==
  InsertIndexEntries(
    InsertEntities(
      DeleteIndexEntries(S, {e.key : e \in Range(entities)}),
      entities),
    entities)

\* __DeleteEntities
DeleteEntities(S, keys) ==
  DeleteEntityRows(DeleteIndexEntries(S, keys), keys, "Entities")

----------------------------------------------------------------------------
\* Validation, the connection lock and the entity-group lock

FnPut(f, k, v) == [x \in DOMAIN f \cup {k} |-> IF x = k THEN v ELSE f[x]]
FnDrop(f, k) == [x \in DOMAIN f \ {k} |-> f[x]]

\* self.__trusted as the constructor sets it
Trusted == FALSE

\* __ValidateAppId
ValidateAppId(S, app) ==
  IF S.exc # "" THEN S
  ELSE IF app = <<>> THEN Raise(S, "AssertionError")
  ELSE IF ~Trusted /\ app # OwnApp THEN Raise(S, "BadRequestError")
  ELSE S

\* __ValidateKey
ValidateKey(S, key) ==
  Then(ValidateAppId(S, key.app),
       LAMBDA S1 :
         IF \E i \in 1..Len(key.path) : key.path[i].has_id = key.path[i].has_name
           THEN Raise(S1, "BadRequestError")
           ELSE S1)

\* __ValidateTransaction
ValidateTransaction(S, app, h) ==
  Then(ValidateAppId(S, app),
       LAMBDA S1 : IF h # S1.current_transaction THEN Raise(S1, "BAD_REQUEST")
                   ELSE S1)

\* threading.RLock: acquire() by thread t, which the caller has found able
\* to take it, and release()
CanAcquire(t) == connection_lock.owner \in {0, t}

LockAcquire(S, t) ==
  [S EXCEPT !.connection_lock = [owner |-> t, count |-> @.count + 1]]

LockRelease(S, t) ==
  IF S.connection_lock.owner # t THEN [S EXCEPT !.exc = "RuntimeError"]
  ELSE [S EXCEPT !.connection_lock =
          IF @.count = 1 THEN [owner |-> 0, count |-> 0]
          ELSE [owner |-> t, count |-> @.count - 1]]

\* __GetConnection; h is the handle of the request's transaction, 0 for none
GetConnection(S, t, h) ==
  IF h # S.current_transaction THEN Raise(LockAcquire(S, t), "BAD_REQUEST")
  ELSE LockAcquire(S, t)

\* __ReleaseConnection: runs in the finally clauses, an exception pending
\* or not
ReleaseConnection(S, t, h, rollback) ==
  LockRelease(IF h # 0 THEN S
              ELSE IF rollback THEN ConnRollback(S) ELSE ConnCommit(S),
              t)

\* the name of the lock of an entity group
LockStr(entity_group) == OwnApp \o <<95>> \o entity_group

\* SELECT GET_LOCK(name, timeout): the backend gives the lock to this
\* session unless another session holds it until the timeout has passed
GetLock(S, name) ==
  IF <<name, "peer">> \in S.locks THEN S
  ELSE [S EXCEPT !.locks = @ \cup {<<name, "self">>}]

\* __AcquireLockForEntityGroup: the result of GET_LOCK is not read
AcquireLockForEntityGroup(S, entity_group) ==
  Then(S, LAMBDA S0 :
    Then(ExecuteSQL(S0, GetLock(S0, LockStr(entity_group))), ConnCommit))

\* __ReleaseLockForEntityGroup: SELECT RELEASE_LOCK(name), then a commit.
\* It is called where an exception may be propagating, and its statement
\* is executed all the same.
ReleaseLockForEntityGroup(S, entity_group) ==
  IF S.fault = 0 THEN [S EXCEPT !.exc = "OperationalError", !.fault = -1]
  ELSE ConnCommit([S EXCEPT
                     !.locks = @ \ {<<LockStr(entity_group), "self">>},
                     !.fault = IF @ > 0 THEN @ - 1 ELSE @])

\* __ExtractEntityGroupFromKeys: the kind of the last path element of the
\* keys; S.ret is the group
ExtractEntityGroupFromKeys(S, keys) ==
  IF Cardinality({GetEntityKind(k) : k \in keys}) # 1
    THEN Raise(S, "AssertionError")
    ELSE [S EXCEPT !.ret = CHOOSE ty \in {GetEntityKind(k) : k \in keys} : TRUE]

\* the first operation of a transaction in _Dynamic_Put and _Dynamic_Get
\* (lines 900-906 and 948-954)
EnterTransaction(S, h, keys) ==
  IF S.exc # "" \/ h = 0 \/ h \notin DOMAIN S.transactions \/ S.inside_tx
    THEN S
  ELSE Then(ExtractEntityGroupFromKeys(S, keys),
            LAMBDA S1 :
              AcquireLockForEntityGroup(
                [S1 EXCEPT !.inside_tx = TRUE, !.transactions[h] = S1.ret],
                S1.ret))

\* the same in _Dynamic_Delete (lines 971-977), where the assignment to
\* self.__transactions names a variable that does not exist
EnterTransactionDelete(S, h, keys) ==
  IF S.exc # "" \/ h = 0 \/ h \notin DOMAIN S.transactions \/ S.inside_tx
    THEN S
  ELSE Then(ExtractEntityGroupFromKeys(S, keys),
            LAMBDA S1 : Raise([S1 EXCEPT !.inside_tx = TRUE], "NameError"))

----------------------------------------------------------------------------
\* The handlers.  t is the calling thread, h the handle of the request's
\* transaction (0: the request carries none).

\* whether the last element of the path of a key has neither id nor name
Incomplete(key) ==
  key.path[Len(key.path)].id = 0 /\ ~key.path[Len(key.path)].has_name

\* last_path.set_id(id_)
SetId(e, id) == [e EXCEPT !.key.path[Len(e.key.path)] = IdElem(@.type, id)]

\* the root of the path of the key becomes the entity group
SetGroup(e) == [e EXCEPT !.entity_group = <<e.key.path[1]>>]

\* an entity of an incomplete key once the id is allocated
WithId(e, id) == SetGroup(SetId(e, id))

\* a Put that leaves a pending Delete of the key in place
BufferWrite_keeps_delete(S, h, i, entity) ==
  IF h # 0
    THEN [S EXCEPT !.req[i] = entity,
                   !.tx_writes = FnPut(@, entity.key, entity)]
    ELSE [S EXCEPT !.req[i] = entity]

\* the end of the loop body of _Dynamic_Put: entity i of the request is
\* buffered when the request carries a transaction
BufferWrite(S, h, i, entity) ==
  IF h # 0
    THEN [S EXCEPT !.req[i] = entity,
                   !.tx_writes = FnPut(@, entity.key, entity),
                   !.tx_deletes = @ \ {entity.key}]
    ELSE [S EXCEPT !.req[i] = entity]

\* the loop body of _Dynamic_Put for an entity of an incomplete key
PutIncomplete(S, h, i) ==
  Then(AllocateIds(GetTablePrefix(S, NsOf(S.req[i].key)),
                   TablePrefix(NsOf(S.req[i].key)), 1),
       LAMBDA S2 :
         IF S.req[i].entity_group # <<>> THEN Raise(S2, "AssertionError")
         ELSE BufferWrite(S2, h, i, WithId(S.req[i], S2.ret)))

\* the body of the loop of _Dynamic_Put for entity i of the request
PutEntity(S, h, i) ==
  Then(ValidateKey(S, S.req[i].key),
       LAMBDA S1 :
         IF Incomplete(S.req[i].key) THEN PutIncomplete(S1, h, i)
         ELSE IF S.req[i].entity_group = <<>> THEN Raise(S1, "AssertionError")
         ELSE BufferWrite(S1, h, i, S.req[i]))

RECURSIVE PutLoop(_, _, _)
PutLoop(S, h, i) ==
  IF S.exc # "" \/ i > Len(S.req) THEN S
  ELSE PutLoop(PutEntity(S, h, i), h, i + 1)

\* a try block of _Dynamic_Put that writes the entities to the tables
\* whether or not the request carries a transaction
PutTry_writes_through(S, h, entities) ==
  Then(PutLoop(EnterTransaction([S EXCEPT !.req = entities], h,
                                {e.key : e \in Range(entities)}),
               h, 1),
       LAMBDA S3 :
         Then(PutEntities(S3, S3.req),
              LAMBDA S4 :
                [S4 EXCEPT !.resp = [i \in 1..Len(S4.req) |-> S4.req[i].key]]))

\* the try block of _Dynamic_Put; S.resp is the key_list of the response
PutTry(S, h, entities) ==
  Then(PutLoop(EnterTransaction([S EXCEPT !.req = entities], h,
                                {e.key : e \in Range(entities)}),
               h, 1),
       LAMBDA S3 :
         Then(IF h = 0 THEN PutEntities(S3, S3.req) ELSE S3,
              LAMBDA S4 :
                [S4 EXCEPT !.resp = [i \in 1..Len(S4.req) |-> S4.req[i].key]]))

\* _Dynamic_Put
Dynamic_Put(S, t, h, entities) ==
  Then(GetConnection(S, t, h),
       LAMBDA S1 : ReleaseConnection(PutTry(S1, h, entities), t, h, FALSE))

\* the body of the loop of _Dynamic_Get for one key: a group of the
\* response, <<entity>> when the row exists and <<>> when it does not
GetEntity(S, key) ==
  Then(GetTablePrefix(ValidateAppId(S, key.app), NsOf(key)),
       LAMBDA S1 :
         Then(ExecuteSQL(S1, S1),
              LAMBDA S2 :
                [S2 EXCEPT !.resp = Append(@, Lookup(S2.tables, key))]))

RECURSIVE GetLoop(_, _)
GetLoop(S, keys) ==
  IF S.exc # "" \/ keys = <<>> THEN S
  ELSE GetLoop(GetEntity(S, Head(keys)), Tail(keys))

\* _Dynamic_Get
Dynamic_Get(S, t, h, keys) ==
  Then(GetConnection(S, t, h),
       LAMBDA S1 :
         ReleaseConnection(GetLoop(EnterTransaction(S1, h, Range(keys)), keys),
                           t, h, FALSE))

\* the body of the first loop of _Dynamic_Delete for one key
DeleteKey(S, h, key) ==
  Then(ValidateAppId(S, key.app),
       LAMBDA S1 :
         IF h = 0 THEN S1
         ELSE [S1 EXCEPT !.tx_deletes = @ \cup {key},
                         !.tx_writes = FnDrop(@, key)])

RECURSIVE DeleteLoop(_, _, _)
DeleteLoop(S, h, keys) ==
  IF S.exc # "" \/ keys = <<>> THEN S
  ELSE DeleteLoop(DeleteKey(S, h, Head(keys)), h, Tail(keys))

\* the try block of _Dynamic_Delete
DeleteTry(S, h, keys) ==
  Then(DeleteLoop(EnterTransactionDelete(S, h, Range(keys)), h, keys),
       LAMBDA S3 : IF h = 0 THEN DeleteEntities(S3, Range(keys)) ELSE S3)

\* _Dynamic_Delete
Dynamic_Delete(S, t, h, keys) ==
  Then(GetConnection(S, t, h),
       LAMBDA S1 : ReleaseConnection(DeleteTry(S1, h, keys), t, h, FALSE))

\* _Dynamic_AllocateIds; S.resp is <<start, end>>
Dynamic_AllocateIds(S, t, model_key, size) ==
  Then(AllocateIds(GetTablePrefix(ValidateAppId(GetConnection(S, t, 0),
                                                model_key.app),
                                  NsOf(model_key)),
                   TablePrefix(NsOf(model_key)), size),
       LAMBDA S3 :
         ReleaseConnection([S3 EXCEPT !.resp = <<S3.ret, S3.ret + size - 1>>],
                           t, 0, FALSE))

----------------------------------------------------------------------------
\* Transaction coordinator

_MAX_ACTIONS_PER_TXN == 5

EmptyFn == [x \in {} |-> 0]

\* a _Dynamic_BeginTransaction without its first assertion
BeginLocked_no_assert(S) ==
  [S EXCEPT !.next_tx_handle = @ + 1,
            !.current_transaction = S.next_tx_handle,
            !.transactions = FnPut(@, S.next_tx_handle, NoGroup),
            !.resp = <<S.next_tx_handle>>,
            !.tx_lock = TRUE]

\* _Dynamic_BeginTransaction after self.__connection_lock.acquire();
\* S.resp is <<handle>>
BeginLocked(S) ==
  IF S.current_transaction # 0 THEN Raise(S, "AssertionError")
  ELSE [S EXCEPT !.next_tx_handle = @ + 1,
                 !.current_transaction = S.next_tx_handle,
                 !.transactions = FnPut(@, S.next_tx_handle, NoGroup),
                 !.resp = <<S.next_tx_handle>>,
                 !.exc = IF S.tx_lock THEN "Blocked" ELSE "",
                 !.tx_lock = TRUE]

\* _Dynamic_BeginTransaction
Dynamic_BeginTransaction(S, t, app) ==
  Then(ValidateAppId(S, app), LAMBDA S1 : BeginLocked(LockAcquire(S1, t)))

\* a _Dynamic_AddActions that does not look at the length of the queue
Dynamic_AddActions_no_limit(S, app, h, n) ==
  Then(ValidateTransaction(S, app, h),
       LAMBDA S1 : [S1 EXCEPT !.tx_actions = @ \o [i \in 1..n |-> h]])

\* _Dynamic_AddActions: n add requests, each naming transaction h of app
Dynamic_AddActions(S, app, h, n) ==
  IF Len(S.tx_actions) + n > _MAX_ACTIONS_PER_TXN THEN Raise(S, "BAD_REQUEST")
  ELSE Then(ValidateTransaction(S, app, h),
            LAMBDA S1 : [S1 EXCEPT !.tx_actions = @ \o [i \in 1..n |-> h]])

\* a loop over self.__tx_actions that lets the ApplicationError of the
\* first refused action through
DispatchActions_stops(S, drop) ==
  IF S.exc # "" THEN S
  ELSE IF \E i \in 1..Len(S.tx_actions) : i \in drop
    THEN [S EXCEPT
            !.exc = "ApplicationError",
            !.dispatched =
               @ \o SubSeq(S.tx_actions, 1,
                           (CHOOSE i \in 1..Len(S.tx_actions) :
                              i \in drop /\ \A j \in 1..(i - 1) : j \notin drop)
                             - 1)]
  ELSE [S EXCEPT !.dispatched = @ \o S.tx_actions]

\* the loop of _Dynamic_Commit over self.__tx_actions: the task queue takes
\* the actions whose index is not in drop, and raises ApplicationError for
\* the others
DispatchActions(S, drop) ==
  IF S.exc # "" THEN S
  ELSE [S EXCEPT !.dispatched =
          @ \o SelectSeq([i \in 1..Len(S.tx_actions) |->
                            IF i \in drop THEN 0 ELSE S.tx_actions[i]],
                         LAMBDA a : a # 0)]

\* self.__transactions[transaction] or ''
GroupOf(S, h) ==
  IF S.transactions[h] = NoGroup THEN <<>> ELSE S.transactions[h]

\* the assignments that end a transaction, up to __ReleaseConnection
ClearTransaction(S) ==
  [S EXCEPT !.current_transaction = 0,
            !.tx_actions = <<>>,
            !.tx_writes = EmptyFn,
            !.tx_deletes = {}]

\* the finally clause of _Dynamic_Commit and the tail of _Dynamic_Rollback
\* (lines 1479-1488, 1492-1501), an exception pending or not: a
\* transaction that is not in self.__transactions raises KeyError after the
\* connection is released, and when RELEASE_LOCK raises the lines after it
\* are not reached
EndTransaction(S, t, h, rollback) ==
  IF S.connection_lock.owner # t
    THEN ReleaseConnection(ClearTransaction(S), t, 0, rollback)
  ELSE IF h \notin DOMAIN S.transactions
    THEN Raise(ReleaseConnection(ClearTransaction(S), t, 0, rollback),
               "KeyError")
  ELSE IF S.fault = 0
    THEN ReleaseLockForEntityGroup(
           ReleaseConnection(ClearTransaction(S), t, 0, rollback),
           GroupOf(S, h))
  ELSE [ReleaseLockForEntityGroup(
          ReleaseConnection(ClearTransaction(S), t, 0, rollback),
          GroupOf(S, h))
        EXCEPT !.transactions = FnDrop(@, h),
               !.inside_tx = FALSE,
               !.tx_lock = FALSE]

\* _Dynamic_Commit; order lists the keys of self.__tx_writes as values()
\* and sorted() happen to order their entities
Dynamic_Commit(S, t, h, order, drop) ==
  IF h = 0 \/ h # S.current_transaction THEN Raise(S, "AssertionError")
  ELSE EndTransaction(
         DispatchActions(
           DeleteEntities(
             PutEntities(S, [i \in 1..Len(order) |-> S.tx_writes[order[i]]]),
             S.tx_deletes),
           drop),
         t, h, FALSE)

\* a _Dynamic_Rollback that hands the queued actions to the task queue
Dynamic_Rollback_dispatches(S, t, h) ==
  Then(GetConnection(S, t, h),
       LAMBDA S1 : EndTransaction(DispatchActions(S1, {}), t, h, TRUE))

\* _Dynamic_Rollback
Dynamic_Rollback(S, t, h) ==
  Then(GetConnection(S, t, h), LAMBDA S1 : EndTransaction(S1, t, h, TRUE))

----------------------------------------------------------------------------
\* Queries and their rows

_MAXIMUM_RESULTS == 1000
_MAX_QUERY_COMPONENTS == 63
_BATCH_SIZE == 20

\* A datastore_pb.Query.  h is the handle of its transaction (0: none);
\* ancestor, order, compiled_cursor and end_compiled_cursor are <<>> when not
\* set; limit, offset and count are -1 when not set.
Query(h, ancestor, order, limit, offset, count) ==
  [app |-> OwnApp, name_space |-> Ns0[2], kind |-> KindA, h |-> h,
   ancestor |-> ancestor, order |-> order, limit |-> limit,
   offset |-> offset, count |-> count, compiled_cursor |-> <<>>,
   end_compiled_cursor |-> <<>>, filter |-> <<>>]

\* A datastore_pb.Query_Filter: one property, an operator and a value, as
\* __EncodeIndexPB gives it (the encoded path when the property is __key__)
Filter(property, op, value) ==
  [property |-> property, op |-> op, value |-> value]

\* the query with its filter_list set
Filtered(query, filters) == [query EXCEPT !.filter = filters]

\* query.limit() and query.offset(): 0 when the field is not set
LimitOf(query) == IF query.limit < 0 THEN 0 ELSE query.limit
OffsetOf(query) == IF query.offset < 0 THEN 0 ELSE query.offset

\* the direction of the first order of the query, ASCENDING when it has none
Direction(query) ==
  IF query.order # <<>> THEN query.order[1].direction ELSE "ASCENDING"

\* whether the rows come from the join with the table of property values:
\* an order on a property that is not __key__
OrdersByProperty(query) ==
  query.order # <<>> /\ query.order[1].property # "__key__"

\* the bytes sortable_pb_encoder gives a property value: for the integer
\* values of the model one byte, ordered as the values are
EncodeValue(v) == <<v>>

\* __GetPrefixRange
GetPrefixRange(path) ==
  <<EncodePath(path), EncodePath(path) \o <<251, 255, 255, 255, 137>> >>

\* the filter on __path__ an ancestor adds
InAncestor(query, path) ==
  \/ query.ancestor = <<>>
  \/ /\ ~StrLess(path, GetPrefixRange(query.ancestor[1].path)[1])
     /\ StrLess(path, GetPrefixRange(query.ancestor[1].path)[2])

\* a comparison of the WHERE clause (__CreateFilterString), on strings of
\* bytes
Holds(op, a, b) ==
  CASE op = "=" -> a = b
    [] op = "<" -> StrLess(a, b)
    [] op = "<=" -> a = b \/ StrLess(a, b)
    [] op = ">" -> StrLess(b, a)
    [] OTHER -> a = b \/ StrLess(b, a)

\* __GenerateFilterInfo: filter_info[name], the (op, value) pairs of the
\* filters on one property, in the order of the filters
FilterOps(query, name) ==
  SelectSeq(query.filter, LAMBDA f : f.property = name)

\* filter_info.keys()
FilterNames(query) == {query.filter[i].property : i \in DOMAIN query.filter}

\* __GenerateOrderInfo: the orders without a last __key__ ASCENDING
GenerateOrderInfo(orders) ==
  IF /\ orders # <<>>
     /\ orders[Len(orders)].property = "__key__"
     /\ orders[Len(orders)].direction = "ASCENDING"
    THEN SubSeq(orders, 1, Len(orders) - 1)
    ELSE orders

\* the properties named by the filters and the orders
PropertyNames(query) ==
  FilterNames(query)
    \cup {GenerateOrderInfo(query.order)[i].property :
            i \in DOMAIN GenerateOrderInfo(query.order)}

\* __KindQuery gives a plan: only __key__ is named, in at most one order
KindQuery(query) ==
  /\ PropertyNames(query) \subseteq {"__key__"}
  /\ Len(GenerateOrderInfo(query.order)) <= 1

\* __SinglePropertyQuery gives a plan: one property besides __key__, at most
\* one EQUAL filter on it, at most one order and not on __key__, no ancestor,
\* a kind
SinglePropertyQuery(query) ==
  /\ Cardinality(PropertyNames(query) \ {"__key__"}) = 1
  /\ \A name \in PropertyNames(query) \ {"__key__"} :
       Len(SelectSeq(FilterOps(query, name), LAMBDA f : f.op = "=")) <= 1
  /\ Len(GenerateOrderInfo(query.order)) <= 1
  /\ \/ GenerateOrderInfo(query.order) = <<>>
     \/ GenerateOrderInfo(query.order)[1].property # "__key__"
  /\ query.ancestor = <<>>
  /\ query.kind # <<>>

\* __MergeJoinQuery gives a plan: no order, no ancestor, a kind, every
\* filter EQUAL
MergeJoinQuery(query) ==
  /\ GenerateOrderInfo(query.order) = <<>>
  /\ query.ancestor = <<>>
  /\ query.kind # <<>>
  /\ \A i \in DOMAIN query.filter : query.filter[i].op = "="

\* __LastResortQuery gives a plan: require_indexes is False
LastResortQuery(query) == TRUE

\* a list of strategies that tries the merge join before the single property
STRATEGIES_merge_first ==
  <<"__KindQuery", "__MergeJoinQuery", "__SinglePropertyQuery",
    "__LastResortQuery">>

_QUERY_STRATEGIES ==
  <<"__KindQuery", "__SinglePropertyQuery", "__MergeJoinQuery",
    "__LastResortQuery">>

\* whether the strategy returns a plan and not None
Plans(strategy, query) ==
  CASE strategy = "__KindQuery" -> KindQuery(query)
    [] strategy = "__SinglePropertyQuery" -> SinglePropertyQuery(query)
    [] strategy = "__MergeJoinQuery" -> MergeJoinQuery(query)
    [] OTHER -> LastResortQuery(query)

\* lines 1304-1307: the strategies are tried in order and the first plan is
\* taken; "" when none gives one
RECURSIVE FirstPlan(_, _)
FirstPlan(strategies, query) ==
  IF strategies = <<>> THEN ""
  ELSE IF Plans(Head(strategies), query) THEN Head(strategies)
  ELSE FirstPlan(Tail(strategies), query)

\* the strategy whose statement __GetQueryCursor executes
Strategy(query) == FirstPlan(_QUERY_STRATEGIES, query)

\* the rows of the statement of __KindQuery
KindRows(tabs, query) ==
  {[path |-> r.path, value |-> <<>>] :
     r \in {x \in Rows(tabs, TablePrefix(<<query.app, query.name_space>>),
                       "Entities") :
              /\ \A i \in DOMAIN FilterOps(query, "__key__") :
                   Holds(FilterOps(query, "__key__")[i].op, x.path,
                         FilterOps(query, "__key__")[i].value)
              /\ x.kind = query.kind
              /\ InAncestor(query, x.path)}}

\* the property of a query that names one property besides __key__
PropertyName(query) ==
  CHOOSE name \in PropertyNames(query) \ {"__key__"} : TRUE

\* the rows of the statement of __SinglePropertyQuery: the rows of the
\* property with the filters on its value, joined with the entities
SinglePropertyRows(tabs, query) ==
  {[path |-> r.path, value |-> EncodeValue(r.value)] :
     r \in {x \in Rows(tabs, TablePrefix(<<query.app, query.name_space>>),
                       "EntitiesByProperty") :
              /\ x.kind = query.kind
              /\ x.name = PropertyName(query)
              /\ \A i \in DOMAIN FilterOps(query, PropertyName(query)) :
                   Holds(FilterOps(query, PropertyName(query))[i].op,
                         EncodeValue(x.value),
                         FilterOps(query, PropertyName(query))[i].value)
              /\ \E e \in Rows(tabs,
                               TablePrefix(<<query.app, query.name_space>>),
                               "Entities") : e.path = x.path}}

\* the (op, value) pairs of a sequence of filters
OpsOf(filters) ==
  {[op |-> filters[i].op, value |-> filters[i].value] : i \in DOMAIN filters}

\* filter_sets of __StarSchemaQueryPlan: one per EQUAL filter, one per
\* property for its other filters, one without filters per ordered property
\* that has no filter
FilterSets(query) ==
  {[name |-> query.filter[i].property,
    ops |-> {[op |-> "=", value |-> query.filter[i].value]}] :
     i \in {j \in DOMAIN query.filter : query.filter[j].op = "="}}
  \cup {[name |-> name,
         ops |-> OpsOf(SelectSeq(FilterOps(query, name),
                                 LAMBDA f : f.op # "="))] :
          name \in {n \in FilterNames(query) :
                      \E i \in DOMAIN FilterOps(query, n) :
                        FilterOps(query, n)[i].op # "="}}
  \cup {[name |-> GenerateOrderInfo(query.order)[i].property, ops |-> {}] :
          i \in {j \in DOMAIN GenerateOrderInfo(query.order) :
                   /\ GenerateOrderInfo(query.order)[j].property # "__key__"
                   /\ GenerateOrderInfo(query.order)[j].property
                        \notin FilterNames(query)}}

\* join_name_map[name]: the first join of the property, that of its first
\* EQUAL filter when it has one
JoinOf(query, name) ==
  IF \E i \in DOMAIN FilterOps(query, name) :
       FilterOps(query, name)[i].op = "="
    THEN [name |-> name,
          ops |-> {[op |-> "=",
                    value |-> SelectSeq(FilterOps(query, name),
                                        LAMBDA f : f.op = "=")[1].value]}]
    ELSE CHOOSE j \in FilterSets(query) : j.name = name

\* the rows of EntitiesByProperty one join of the star takes for an entity
Joined(tabs, query, j, path) ==
  {x \in Rows(tabs, TablePrefix(<<query.app, query.name_space>>),
              "EntitiesByProperty") :
     /\ x.path = path
     /\ x.kind = query.kind
     /\ x.name = j.name
     /\ \A o \in j.ops :
          Holds(o.op, EncodeValue(x.value), o.value)
     /\ InAncestor(query, x.path)}

\* the rows of the statement of __StarSchemaQueryPlan: one for every entity
\* and every choice of a row in each join (via), with the value of the
\* ordered property
StarRows(tabs, query) ==
  UNION {{[path |-> e.path,
           value |-> IF OrdersByProperty(query)
                       THEN EncodeValue(
                              via[JoinOf(query,
                                         query.order[1].property)].value)
                       ELSE <<>>,
           via |-> via] :
            via \in {f \in [FilterSets(query) ->
                             Rows(tabs,
                                  TablePrefix(<<query.app, query.name_space>>),
                                  "EntitiesByProperty")] :
                       \A j \in FilterSets(query) :
                         f[j] \in Joined(tabs, query, j, e.path)}} :
           e \in Rows(tabs, TablePrefix(<<query.app, query.name_space>>),
                      "Entities")}

\* the rows the SELECT of the query's plan finds, each with the columns
\* __path__ and value (<<>> in a plan that does not select a value)
FoundRows(tabs, query) ==
  CASE Strategy(query) = "__KindQuery" -> KindRows(tabs, query)
    [] Strategy(query) = "__SinglePropertyQuery" ->
         SinglePropertyRows(tabs, query)
    [] OTHER -> StarRows(tabs, query)

\* ORDER BY: value in the direction of the query where the plan selects it,
\* then __path__, descending only for an order on __key__ DESCENDING
RowBefore(a, b, query) ==
  IF a.value # b.value
    THEN IF Direction(query) = "ASCENDING" THEN StrLess(a.value, b.value)
         ELSE StrLess(b.value, a.value)
  ELSE IF OrdersByProperty(query) \/ Direction(query) = "ASCENDING"
    THEN StrLess(a.path, b.path)
  ELSE StrLess(b.path, a.path)

\* the rows in the order of the statement; rows equal in every ORDER BY
\* column differ in no column the cursor reads
RECURSIVE SortRows(_, _)
SortRows(rows, query) ==
  IF rows = {} THEN <<>>
  ELSE LET first == CHOOSE r \in rows :
                      \A o \in rows \ {r} : ~RowBefore(o, r, query)
       IN <<first>> \o SortRows(rows \ {first}, query)

\* LIMIT offset, limit and LIMIT limit
Limited(rows, query) ==
  IF query.limit >= 0 /\ query.offset >= 0
    THEN SubSeq(rows, query.offset + 1,
                IF query.offset + query.limit < Len(rows)
                  THEN query.offset + query.limit ELSE Len(rows))
  ELSE IF query.limit >= 0
    THEN SubSeq(rows, 1, IF query.limit < Len(rows) THEN query.limit
                         ELSE Len(rows))
  ELSE rows

\* what the statement of the query yields: its rows in order, each with its
\* path and its position, the order columns joined
SelectRows(tabs, query) ==
  [i \in 1..Len(SortRows(FoundRows(tabs, query), query)) |->
     [path |-> SortRows(FoundRows(tabs, query), query)[i].path,
      position |-> SortRows(FoundRows(tabs, query), query)[i].value
                     \o SortRows(FoundRows(tabs, query), query)[i].path]]

----------------------------------------------------------------------------
\* QueryCursor.  open is FALSE once self.__cursor is None; at is the number
\* of rows fetched from the backend cursor; got is the value of the last
\* call of _GetResult or _Next (<<>>: None), out the result_list being filled

\* QueryCursor.__init__
QueryCursor(query, rows) ==
  [app |-> query.app, open |-> TRUE, rows |-> rows, at |-> 0, seen |-> {},
   position |-> <<>>, next_result |-> <<>>,
   limit |-> IF query.limit >= 0 THEN query.limit + OffsetOf(query) ELSE -1,
   direction |-> Direction(query), end |-> query.end_compiled_cursor,
   got |-> <<>>, out |-> <<>>]

\* whether a row at position lies beyond the end compiled cursor
BeyondEnd(c, position) ==
  /\ c.end # <<>>
  /\ \/ c.direction = "ASCENDING" /\ StrLess(c.end[1], position)
     \/ c.direction = "DESCENDING" /\ StrLess(position, c.end[1])

\* _GetResult
GetResult(c) ==
  IF ~c.open THEN [c EXCEPT !.got = <<>>]
  ELSE IF c.at >= Len(c.rows) THEN [c EXCEPT !.open = FALSE, !.got = <<>>]
  ELSE IF BeyondEnd(c, c.rows[c.at + 1].position)
    THEN [c EXCEPT !.at = @ + 1, !.open = FALSE, !.got = <<>>]
  ELSE [c EXCEPT !.at = @ + 1, !.position = c.rows[c.at + 1].position,
                 !.got = <<c.rows[c.at + 1].path>>]

\* a loop of _Next that takes a path whether or not it was seen
RECURSIVE NextLoop_no_seen(_)
NextLoop_no_seen(c) ==
  IF ~c.open THEN [c EXCEPT !.got = <<>>]
  ELSE IF c.got # <<>> THEN [c EXCEPT !.seen = @ \cup {c.got[1]}]
  ELSE NextLoop_no_seen(GetResult(c))

\* the loop of _Next; c.got is the path in hand
RECURSIVE NextLoop(_)
NextLoop(c) ==
  IF ~c.open THEN [c EXCEPT !.got = <<>>]
  ELSE IF c.got # <<>> /\ c.got[1] \notin c.seen
    THEN [c EXCEPT !.seen = @ \cup {c.got[1]}]
  ELSE NextLoop(GetResult(c))

\* _Next; c.got is <<path>> of the entity, or <<>> for None
CursorNext(c) == NextLoop([c EXCEPT !.got = c.next_result, !.next_result = <<>>])

\* Skip
RECURSIVE Skip(_, _)
Skip(c, count) == IF count = 0 THEN c ELSE Skip(CursorNext(c), count - 1)

\* self.__next_result = the value _GetResult has returned
Hold(c) == [c EXCEPT !.next_result = c.got]

\* the loops of ResumeFromCompiledCursor: self.__next_result = _GetResult()
\* while the position is not beyond the target
RECURSIVE ResumeLoop(_, _)
ResumeLoop(c, target_position) ==
  IF /\ c.open
     /\ IF c.direction = "ASCENDING" THEN ~StrLess(target_position, c.position)
        ELSE ~StrLess(c.position, target_position)
    THEN ResumeLoop(Hold(GetResult(c)), target_position)
    ELSE c

\* ResumeFromCompiledCursor
ResumeFromCompiledCursor(c, target_position) ==
  IF /\ c.end # <<>>
     /\ IF c.direction = "ASCENDING" THEN ~StrLess(target_position, c.end[1])
        ELSE ~StrLess(c.end[1], target_position)
    THEN [c EXCEPT !.position = target_position, !.open = FALSE]
    ELSE ResumeLoop(c, target_position)

\* _EncodeCompiledCursor: the start_key of the position
EncodeCompiledCursor(c) ==
  c.position \o <<33>>
    \o ZFill(Str(IF c.open THEN Len(c.rows) ELSE 0), 10)

\* the loop of PopulateQueryResult; PopulateStep is the end of its body,
\* c being the cursor after _Next
RECURSIVE PopulateLoop(_, _), PopulateStep(_, _)
PopulateLoop(c, count) ==
  IF Len(c.out) >= count THEN c
  ELSE IF c.limit >= 0 /\ Cardinality(c.seen) >= c.limit THEN c
  ELSE PopulateStep(CursorNext(c), count)

PopulateStep(c, count) ==
  IF c.got = <<>> THEN c
  ELSE PopulateLoop([c EXCEPT !.out = Append(@, c.got[1])], count)

\* PopulateQueryResult: c.out is the result_list
PopulateQueryResult(c, count) ==
  PopulateLoop([c EXCEPT !.out = <<>>],
               IF count > _MAXIMUM_RESULTS THEN _MAXIMUM_RESULTS ELSE count)

\* a QueryResult that reports more results when the batch is short
QueryResult_when_short(c, id, count) ==
  [cursor |-> id, result |-> c.out,
   more_results |-> (Len(c.out) < (IF count > _MAXIMUM_RESULTS
                                     THEN _MAXIMUM_RESULTS ELSE count)),
   compiled_cursor |-> EncodeCompiledCursor(c)]

\* the QueryResult a filled cursor gives
QueryResult(c, id, count) ==
  [cursor |-> id, result |-> c.out,
   more_results |-> (Len(c.out) = (IF count > _MAXIMUM_RESULTS
                                     THEN _MAXIMUM_RESULTS ELSE count)),
   compiled_cursor |-> EncodeCompiledCursor(c)]

\* Count
CursorCount(c) ==
  IF c.limit >= 0 /\ c.limit < Len(c.rows) - c.at THEN c.limit
  ELSE Len(c.rows) - c.at

----------------------------------------------------------------------------
\* The query handlers

\* int(n) of a string of digits
RECURSIVE ParseInt(_)
ParseInt(s) ==
  IF s = <<>> THEN 0
  ELSE 10 * ParseInt(SubSeq(s, 1, Len(s) - 1)) + (s[Len(s)] - 48)

\* start_key.split('!')
RECURSIVE Split(_)
Split(s) ==
  IF \A i \in 1..Len(s) : s[i] # 33 THEN <<s>>
  ELSE LET i == CHOOSE j \in 1..Len(s) :
                  s[j] = 33 /\ \A k \in 1..(j - 1) : s[k] # 33
       IN <<SubSeq(s, 1, i - 1)>> \o Split(SubSeq(s, i + 1, Len(s)))

\* lines 1315-1319: the query once the row count of its compiled cursor is
\* its offset
Resumed(query) ==
  IF query.compiled_cursor = <<>> THEN query
  ELSE [query EXCEPT
          !.offset = ParseInt(Split(query.compiled_cursor[1])[2]),
          !.limit = LimitOf(query)
                      + ParseInt(Split(query.compiled_cursor[1])[2])]

\* lines 1321-1323: query.set_offset(0) when the statement has LIMIT
\* offset, limit
AfterLimit(query) ==
  IF query.limit >= 0 /\ query.offset >= 0 THEN [query EXCEPT !.offset = 0]
  ELSE query

\* lines 1330-1334: the cursor over the rows of the statement, resumed and
\* with the offset skipped
Positioned(query, rows) ==
  Skip(IF query.compiled_cursor # <<>>
         THEN ResumeFromCompiledCursor(QueryCursor(AfterLimit(query), rows),
                                       query.compiled_cursor[1])
         ELSE QueryCursor(AfterLimit(query), rows),
       OffsetOf(AfterLimit(query)))

\* a __GetQueryCursor that takes the query of a transaction whether or not
\* it has an ancestor
GetQueryCursor_any_query(S, query) ==
  IF S.exc # "" THEN S
  ELSE IF Len(query.order) + Len(query.ancestor) > _MAX_QUERY_COMPONENTS
    THEN Raise(S, "BAD_REQUEST")
  ELSE Then(GetTablePrefix(ValidateAppId(S, query.app),
                           <<query.app, query.name_space>>),
            LAMBDA S1 :
              IF Strategy(query) = "" THEN Raise(S1, "BAD_REQUEST")
              ELSE IF /\ query.compiled_cursor # <<>>
                      /\ Len(Split(query.compiled_cursor[1])) # 2
                THEN Raise(S1, "ValueError")
                ELSE ExecuteSQL(S1,
                       [S1 EXCEPT !.ret =
                          Positioned(Resumed(query),
                                     Limited(SelectRows(S1.tables, query),
                                             Resumed(query)))]))

\* __GetQueryCursor; S.ret is the cursor
GetQueryCursor(S, query) ==
  IF S.exc # "" THEN S
  ELSE IF query.h # 0 /\ query.ancestor = <<>> THEN Raise(S, "BAD_REQUEST")
  ELSE IF Len(query.order) + Len(query.ancestor) > _MAX_QUERY_COMPONENTS
    THEN Raise(S, "BAD_REQUEST")
  ELSE Then(GetTablePrefix(ValidateAppId(S, query.app),
                           <<query.app, query.name_space>>),
            LAMBDA S1 :
              IF Strategy(query) = "" THEN Raise(S1, "BAD_REQUEST")
              ELSE IF /\ query.compiled_cursor # <<>>
                      /\ Len(Split(query.compiled_cursor[1])) # 2
                THEN Raise(S1, "ValueError")
                ELSE ExecuteSQL(S1,
                       [S1 EXCEPT !.ret =
                          Positioned(Resumed(query),
                                     Limited(SelectRows(S1.tables, query),
                                             Resumed(query)))]))

\* the count of the first batch (lines 1388-1393)
BatchCount(query, c) ==
  IF query.count >= 0 THEN query.count
  ELSE IF c.limit >= 0 THEN c.limit
  ELSE _BATCH_SIZE

\* a cursor as self.__cursors keeps it between calls
Kept(c) == [c EXCEPT !.got = <<>>, !.out = <<>>]

\* lines 1379-1396: the cursor gets its id, fills the first batch and is
\* kept; S.resp is the QueryResult
StoreCursor(S, query, c, count) ==
  [S EXCEPT
     !.next_cursor_id = @ + 1,
     !.cursors = FnPut(@, S.next_cursor_id, Kept(c)),
     !.resp = QueryResult(c, S.next_cursor_id, count),
     !.served = FnPut(@, S.next_cursor_id,
                      [query |-> query, out |-> c.out,
                       compiled_cursor |-> EncodeCompiledCursor(c)])]

\* the try block of _Dynamic_RunQuery
RunQueryTry(S, query) ==
  Then(GetQueryCursor(S, query),
       LAMBDA S2 :
         StoreCursor(S2, query,
                     PopulateQueryResult(S2.ret, BatchCount(query, S2.ret)),
                     BatchCount(query, S2.ret)))

\* _Dynamic_RunQuery
Dynamic_RunQuery(S, t, query) ==
  Then(GetConnection(S, t, query.h),
       LAMBDA S1 :
         ReleaseConnection(RunQueryTry(S1, query), t, query.h, FALSE))

\* the end of _Dynamic_Next: the batch of a cursor that was found
NextBatch(S, id, c, count) ==
  [S EXCEPT
     !.cursors[id] = Kept(c),
     !.resp = QueryResult(c, id, count),
     !.served[id] = [@ EXCEPT !.out = @ \o c.out,
                              !.compiled_cursor = EncodeCompiledCursor(c)]]

\* _Dynamic_Next; count is -1 when the request has none
Dynamic_Next(S, app, id, count) ==
  Then(ValidateAppId(S, app),
       LAMBDA S1 :
         IF id \notin DOMAIN S1.cursors THEN Raise(S1, "BAD_REQUEST")
         ELSE IF S1.cursors[id].app # app THEN Raise(S1, "AssertionError")
         ELSE NextBatch(S1, id,
                PopulateQueryResult(S1.cursors[id],
                                    IF count >= 0 THEN count ELSE _BATCH_SIZE),
                IF count >= 0 THEN count ELSE _BATCH_SIZE))

\* lines 1418-1421: the limit of a Count
CountLimit(query) ==
  [query EXCEPT !.limit = IF query.limit >= 0 /\ query.limit < _MAXIMUM_RESULTS
                            THEN query.limit ELSE _MAXIMUM_RESULTS]

\* _Dynamic_Count; S.resp is <<count>>.  Count reads self.__cursor, which
\* is None when the rows ran out while the cursor was positioned
Dynamic_Count(S, t, query) ==
  Then(GetConnection(S, t, query.h),
       LAMBDA S1 :
         ReleaseConnection(
           Then(GetQueryCursor(S1, CountLimit(query)),
                LAMBDA S2 :
                  IF ~S2.ret.open THEN Raise(S2, "AttributeError")
                  ELSE [S2 EXCEPT !.resp = <<CursorCount(S2.ret)>>]),
           t, query.h, FALSE))

----------------------------------------------------------------------------
\* Composite indexes.  self.__indexes is the sequence of the indexes in the
\* order of their creation; an index is a record of app_id, id, definition
\* and state, and the definition names its entity_type

WRITE_ONLY == 1
READ_WRITE == 2
DELETED == 3
ERROR == 4

IndexStates == {WRITE_ONLY, READ_WRITE, DELETED, ERROR}

\* a table that also lets a DELETED index become READ_WRITE
TRANSITIONS_undelete ==
  [s \in IndexStates |->
     IF s = WRITE_ONLY THEN {READ_WRITE, DELETED, ERROR}
     ELSE IF s = READ_WRITE THEN {DELETED}
     ELSE IF s = ERROR THEN {DELETED}
     ELSE {ERROR, READ_WRITE}]

_INDEX_STATE_TRANSITIONS ==
  [s \in IndexStates |->
     IF s = WRITE_ONLY THEN {READ_WRITE, DELETED, ERROR}
     ELSE IF s = READ_WRITE THEN {DELETED}
     ELSE IF s = ERROR THEN {DELETED}
     ELSE {ERROR}]

CompositeIndex(app_id, id, definition, state) ==
  [app_id |-> app_id, id |-> id, definition |-> definition, state |-> state]

\* __FindIndex: the place of the stored index of the app with the
\* definition of index, 0 if there is none
FindIndex(S, index) ==
  IF \E i \in 1..Len(S.indexes) :
       /\ S.indexes[i].app_id = index.app_id
       /\ S.indexes[i].definition = index.definition
    THEN CHOOSE i \in 1..Len(S.indexes) :
           /\ S.indexes[i].app_id = index.app_id
           /\ S.indexes[i].definition = index.definition
           /\ \A j \in 1..(i - 1) :
                ~(/\ S.indexes[j].app_id = index.app_id
                  /\ S.indexes[j].definition = index.definition)
    ELSE 0

\* __WriteIndexData: the statement is formatted with format_args, a name
\* that is not defined in this method
WriteIndexData(S, app) == Raise(S, "NameError")

\* the indexes in column Apps.indexes of the row of an app: the row is made
\* without a value by INSERT IGNORE INTO Apps (app_id), and the one
\* statement that sets the column, the UPDATE of __WriteIndexData, is never
\* executed
PersistedIndexes(S, app) == <<>>

\* max([idx.id() ...] + [0]) + 1 over the indexes of the app
NextIndexId(S, app_id) ==
  (CHOOSE n \in {0} \cup {S.indexes[i].id : i \in 1..Len(S.indexes)} :
     /\ n = 0 \/ \E i \in 1..Len(S.indexes) :
                   S.indexes[i].app_id = app_id /\ S.indexes[i].id = n
     /\ \A i \in 1..Len(S.indexes) :
          S.indexes[i].app_id = app_id => S.indexes[i].id <= n)
    + 1

\* the part of _Dynamic_CreateIndex under self.__index_lock
CreateLocked(S, t, index) ==
  IF FindIndex(S, index) # 0 THEN Raise(S, "BAD_REQUEST")
  ELSE Then(GetConnection(
              [S EXCEPT
                 !.resp = <<NextIndexId(S, index.app_id)>>,
                 !.indexes =
                    Append(@, [index EXCEPT
                                 !.id = NextIndexId(S, index.app_id)])],
              t, 0),
            LAMBDA S1 :
              ReleaseConnection(WriteIndexData(S1, index.app_id), t, 0, FALSE))

\* _Dynamic_CreateIndex; S.resp is <<id>>
Dynamic_CreateIndex(S, t, index) ==
  Then(ValidateAppId(S, index.app_id),
       LAMBDA S1 :
         IF index.id # 0 THEN Raise(S1, "BAD_REQUEST")
         ELSE CreateLocked(S1, t, index))

\* _Dynamic_GetIndices; S.resp is the set of the indexes of the app
Dynamic_GetIndices(S, app_str) ==
  Then(ValidateAppId(S, app_str),
       LAMBDA S1 :
         [S1 EXCEPT
            !.resp = {S1.indexes[i] : i \in {j \in 1..Len(S1.indexes) :
                                              S1.indexes[j].app_id = app_str}}])

\* my_index.set_state(index.state()); the history moved takes the id of an
\* index that goes from DELETED to ERROR
SetState(S, i, state) ==
  [S EXCEPT
     !.indexes[i].state = state,
     !.moved = IF S.indexes[i].state = DELETED /\ state = ERROR
                 THEN @ \cup {S.indexes[i].id}
                 ELSE @]

\* a _Dynamic_UpdateIndex that does not look at the table of transitions
Dynamic_UpdateIndex_any_state(S, index) ==
  Then(ValidateAppId(S, index.app_id),
       LAMBDA S1 :
         IF FindIndex(S1, index) = 0 THEN Raise(S1, "BAD_REQUEST")
         ELSE SetState(S1, FindIndex(S1, index), index.state))

\* _Dynamic_UpdateIndex
Dynamic_UpdateIndex(S, index) ==
  Then(ValidateAppId(S, index.app_id),
       LAMBDA S1 :
         IF FindIndex(S1, index) = 0 THEN Raise(S1, "BAD_REQUEST")
         ELSE IF /\ index.state # S1.indexes[FindIndex(S1, index)].state
                 /\ index.state \notin
                      _INDEX_STATE_TRANSITIONS[
                        S1.indexes[FindIndex(S1, index)].state]
           THEN Raise(S1, "BAD_REQUEST")
         ELSE SetState(S1, FindIndex(S1, index), index.state))

\* lines 1651-1662 of _Dynamic_UpdateIndex: the checks, made before
\* self.__index_lock is taken
UpdateIndexChecks(S, index) ==
  Then(ValidateAppId(S, index.app_id),
       LAMBDA S1 :
         IF FindIndex(S1, index) = 0 THEN Raise(S1, "BAD_REQUEST")
         ELSE IF /\ index.state # S1.indexes[FindIndex(S1, index)].state
                 /\ index.state \notin
                      _INDEX_STATE_TRANSITIONS[
                        S1.indexes[FindIndex(S1, index)].state]
           THEN Raise(S1, "BAD_REQUEST")
         ELSE S1)

\* lines 1664-1668 of _Dynamic_UpdateIndex: my_index.set_state under
\* self.__index_lock; my_index is the index of that id the checks found
UpdateIndexWrite(S, id, state) ==
  IF \E i \in 1..Len(S.indexes) : S.indexes[i].id = id
    THEN SetState(S, CHOOSE i \in 1..Len(S.indexes) : S.indexes[i].id = id,
                  state)
    ELSE S

\* self.__indexes[app_id][kind].remove(my_index)
RemoveIndex(S, i) ==
  [S EXCEPT !.indexes = SubSeq(@, 1, i - 1) \o SubSeq(@, i + 1, Len(@))]

\* _Dynamic_DeleteIndex
Dynamic_DeleteIndex(S, t, index) ==
  Then(ValidateAppId(S, index.app_id),
       LAMBDA S1 :
         IF FindIndex(S1, index) = 0 THEN Raise(S1, "BAD_REQUEST")
         ELSE Then(Then(GetConnection(S1, t, 0),
                        LAMBDA S2 :
                          ReleaseConnection(WriteIndexData(S2, index.app_id),
                                            t, 0, FALSE)),
                   LAMBDA S3 : RemoveIndex(S3, FindIndex(S1, index))))

\* the kinds of a schema: of the rows of EntitiesByProperty, each with its
\* property, when the request asks for properties, and of the rows of
\* Entities when it does not
SchemaKinds(S, prefix, properties) ==
  IF properties
    THEN {[kind |-> r.kind, property |-> <<r.name>>] :
            r \in Rows(S.tables, prefix, "EntitiesByProperty")}
    ELSE {[kind |-> r.kind, property |-> <<>>] :
            r \in Rows(S.tables, prefix, "Entities")}

\* _Dynamic_GetSchema of a request without start_kind and end_kind; S.resp
\* is the set of the kinds of the schema
Dynamic_GetSchema(S, t, app, name_space, properties) ==
  Then(GetConnection(S, t, 0),
       LAMBDA S1 :
         ReleaseConnection(
           Then(GetTablePrefix(S1, <<app, name_space>>),
                LAMBDA S2 :
                  ExecuteSQL(
                    S2,
                    [S2 EXCEPT
                       !.resp = SchemaKinds(
                                  S2, TablePrefix(<<app, name_space>>),
                                  properties)])),
           t, 0, FALSE))

----------------------------------------------------------------------------
\* Requests

kRoot0 == Key(OwnApp, Ns0[2], <<NameElem(KindA, NameM)>>)
kChild0 == Key(OwnApp, Ns0[2], <<NameElem(KindA, NameM), NameElem(KindB, NameM)>>)
kNew0 == Key(OwnApp, Ns0[2], <<IdElem(KindA, 0)>>)
kId1 == Key(OwnApp, Ns0[2], <<IdElem(KindA, 1)>>)
kPad1 == Key(OwnApp, Ns0[2], <<NameElem(KindA, NamePadded1)>>)
kRoot1 == Key(OwnApp, Ns1[2], <<NameElem(KindA, NameM)>>)

\* an entity as a client sends it: the entity group of a complete key is
\* its root element, that of an incomplete key is not set
Ent(key, v) ==
  LET last_path == key.path[Len(key.path)]
  IN Entity(key,
            IF last_path.id = 0 /\ ~last_path.has_name THEN <<>>
            ELSE <<key.path[1]>>,
            {v})

PutRequests ==
  {<<Ent(kRoot0, 1)>>, <<Ent(kRoot0, 2)>>, <<Ent(kChild0, 1)>>,
   <<Ent(kNew0, 1)>>, <<Ent(kPad1, 1)>>, <<Ent(kRoot1, 1)>>}

StoredKeys == {kRoot0, kChild0, kId1, kPad1, kRoot1}

GetRequests == {<<k>> : k \in StoredKeys}

DeleteRequests == {<<k>> : k \in StoredKeys} \cup {<<kRoot1, kRoot0>>}

AllocateSizes == {1, 999}

\* the requests of the transactions
TxPuts == {<<Ent(kRoot0, 1)>>, <<Ent(kRoot1, 1)>>}

TxGets == {<<kRoot0>>}

TxDeletes == {<<kRoot0>>, <<kRoot1, kRoot0>>}

\* the numbers of actions an AddActions request carries
ActionCounts == {3}

\* the numbers of actions of the requests that fill the queue
QueueCounts == {1, 2, 3}

\* the actions the task queue refuses at a Commit: none, or the first
Drops == {{}, {1}}

\* the statements of a Commit the backend runs before it raises an error;
\* -1: it raises none
CommitFaults == {-1, 2}

\* the orders in which the entities of a set of keys can be listed
RECURSIVE Orders(_)
Orders(keys) ==
  IF keys = {} THEN {<<>>}
  ELSE UNION {{<<k>> \o o : o \in Orders(keys \ {k})} : k \in keys}

\* the entities of a database the queries run over: ids 1 to 3 of kind A,
\* the first with two values of its property
kId2 == Key(OwnApp, Ns0[2], <<IdElem(KindA, 2)>>)
kId3 == Key(OwnApp, Ns0[2], <<IdElem(KindA, 3)>>)

Stored ==
  <<Entity(kId1, <<kId1.path[1]>>, {1, 2}), Entity(kId2, <<kId2.path[1]>>, {2}),
    Entity(kId3, <<kId3.path[1]>>, {1})>>

\* the databases: the first two or all of these entities, put in one
\* request
Databases == {SubSeq(Stored, 1, n) : n \in 2..Len(Stored)}

\* the orders, limits, offsets and counts of the queries
Order(property, direction) ==
  <<[property |-> property, direction |-> direction]>>

\* the queries whose cursors are read: by key or by the property
CursorOrders == {<<>>, Order("p", "ASCENDING")}

\* <<limit, offset, count>>: a count alone, a limit alone, an offset that is
\* skipped, and an offset that goes into LIMIT
CursorShapes == {<<-1, -1, 1>>, <<1, -1, -1>>, <<-1, 1, 1>>, <<1, 1, -1>>}

CursorQueries ==
  {Query(0, <<>>, order, shape[1], shape[2], shape[3]) :
     order \in CursorOrders, shape \in CursorShapes}

\* the queries that are run again with a compiled cursor: in both
\* directions, by key and by the property, with a count or a limit
ResumeOrders ==
  {<<>>, Order("__key__", "DESCENDING"), Order("p", "ASCENDING"),
   Order("p", "DESCENDING")}

ResumeQueries ==
  {Query(0, <<>>, order, shape[1], shape[2], shape[3]) :
     order \in ResumeOrders, shape \in {<<-1, -1, 1>>, <<1, -1, -1>>}}

NextCounts == {-1, 1}

\* the handles Commit and Rollback are called with, 0 for a transaction
\* without a handle, and the statement at which the backend fails in them
EndHandles == 0..MaxTx
EndFaults == {-1, 0}

\* the filters of the planned queries: none, one on the key, an equality
\* or an inequality on the property, two equalities on it, equalities on two
\* properties, and an inequality with an equality
PlanFilters ==
  {<<>>,
   <<Filter("__key__", ">", EncodePath(kId1.path))>>,
   <<Filter("p", "=", EncodeValue(1))>>,
   <<Filter("p", "=", EncodeValue(2))>>,
   <<Filter("p", ">", EncodeValue(1))>>,
   <<Filter("p", "=", EncodeValue(1)), Filter("p", "=", EncodeValue(2))>>,
   <<Filter("p", "=", EncodeValue(1)), Filter("q", "=", EncodeValue(1))>>,
   <<Filter("p", ">", EncodeValue(1)), Filter("q", "=", EncodeValue(1))>>}

\* the planned queries: with and without an ancestor, unordered, by key
\* descending, or by the property where no equality filter names it.  These
\* are queries datastore_index.Normalize leaves as they are.
PlanQueries ==
  {Filtered(Query(0, ancestor, order, -1, -1, -1), filters) :
     ancestor \in {<<>>, <<kId1>>},
     order \in {<<>>, Order("__key__", "DESCENDING")},
     filters \in PlanFilters}
  \cup {Filtered(Query(0, ancestor, Order("p", "DESCENDING"), -1, -1, -1),
                 filters) :
          ancestor \in {<<>>, <<kId1>>},
          filters \in {<<>>, <<Filter("p", ">", EncodeValue(1))>>}}

\* the queries that are counted: by key or by the property, of which the
\* first entity has two values, without a limit and with one, read whole or
\* one entity at a time
CountQueries ==
  {Query(0, <<>>, order, limit, -1, count) :
     order \in CursorOrders, limit \in {-1, 1, 2}, count \in {-1, 1}}

\* the planned queries that are run, whole or one entity at a time: one of
\* each strategy, and the equality filters
PlanRuns ==
  {Filtered(Query(0, <<>>, <<>>, -1, -1, count), filters) :
     count \in {-1, 1},
     filters \in {<<>>,
                  <<Filter("p", "=", EncodeValue(1))>>,
                  <<Filter("p", "=", EncodeValue(2))>>,
                  <<Filter("p", "=", EncodeValue(1)),
                    Filter("p", "=", EncodeValue(2))>>,
                  <<Filter("p", ">", EncodeValue(1)),
                    Filter("q", "=", EncodeValue(1))>>}}

\* the queries of the transactions: all of kind A, and those below the
\* root "m" of kind A
TxQueries ==
  {Query(0, <<>>, <<>>, -1, -1, -1), Query(0, <<kRoot0>>, <<>>, -1, -1, -1)}

\* the keys and the queries of the ancestor queries: a root, a child of it
\* of the kind of the queries, and a root whose name begins with the name
\* of the first
NameMa == NameM \o <<97>>
kChildA == Key(OwnApp, Ns0[2], <<NameElem(KindA, NameM), NameElem(KindA, NameM)>>)
kSibling == Key(OwnApp, Ns0[2], <<NameElem(KindA, NameMa)>>)

AncestorPuts == {<<Ent(kRoot0, 1)>>, <<Ent(kChildA, 1)>>, <<Ent(kSibling, 1)>>}

AncestorDeletes == {<<kRoot0>>, <<kChildA>>}

AncestorQueries ==
  {Query(0, <<ancestor>>, <<>>, -1, -1, -1) : ancestor \in {kRoot0, kSibling}}

\* index definitions: entity_type, ancestor and the ordered properties
Definition(entity_type, ancestor, properties) ==
  [entity_type |-> entity_type, ancestor |-> ancestor,
   properties |-> properties]

IndexDefinitions ==
  {Definition(KindA, FALSE, Order("p", "ASCENDING")),
   Definition(KindA, TRUE, Order("p", "ASCENDING")),
   Definition(KindB, FALSE, Order("p", "DESCENDING"))}

\* the ids a CreateIndex request carries
RequestIds == {0, 1}

----------------------------------------------------------------------------
\* History: what the claims compare the state with

\* thread: the thread that began the running transaction; snap, disp: the
\* committed tables and the dispatched actions when it began; log: for each
\* key the transaction has put or deleted, <<entity>> when the last of
\* these operations was a put and <<>> when it was a delete
NoHist ==
  [thread |-> 0, snap |-> {}, disp |-> <<>>, log |-> EmptyFn]

\* the index rows of a key in tables tabs
IndexOf(tabs, key) ==
  {r \in Rows(tabs, TablePrefix(NsOf(key)), "EntitiesByProperty") :
     r.path = EncodePath(key.path)}

\* a map with the entities of puts put and the keys of deletes deleted
Record(f, puts, deletes) ==
  [k \in DOMAIN f \cup {e.key : e \in puts} \cup deletes |->
     IF \E e \in puts : e.key = k THEN <<CHOOSE e \in puts : e.key = k>>
     ELSE IF k \in deletes THEN <<>>
     ELSE f[k]]

\* a map overlaid with another
Overlay(f, g) ==
  [k \in DOMAIN f \cup DOMAIN g |-> IF k \in DOMAIN g THEN g[k] ELSE f[k]]

\* the histories after a call of Put or Delete that ended in state S
NextHist(S, puts, deletes) ==
  IF current_transaction = 0 \/ S.exc # "" THEN hist
  ELSE [hist EXCEPT !.log = Record(@, puts, deletes)]

NextRef(S, puts, deletes) ==
  IF current_transaction # 0 \/ S.exc # "" THEN ref
  ELSE Record(ref, puts, deletes)

----------------------------------------------------------------------------
\* Actions: one call of a handler by a thread that is not waiting.  A call
\* that has to wait for the connection lock is made when the lock is free.

Threads == {1, 2}

\* the handle a request carries: that of the running transaction, if any
Handle == current_transaction

\* no call of a thread is between the checks and the write of UpdateIndex
NoUpdates == [t \in Threads |-> <<>>]

Ready(t) ==
  /\ t \notin waiting
  /\ updating[t] = <<>>
  /\ CanAcquire(t)
  /\ hist.thread \in {0, t}

Put(T, requests) ==
  \E t \in T, entities \in requests :
    /\ Ready(t)
    /\ Len(issued) < MaxIssues
    /\ LET S == Dynamic_Put(Now(-1), t, Handle, entities)
       IN /\ Becomes(S)
          /\ hist' = NextHist(S, Range(S.req), {})
          /\ ref' = NextRef(S, Range(S.req), {})
    /\ UNCHANGED <<waiting, peer, updating>>

Get(T, requests) ==
  \E t \in T, keys \in requests :
    /\ Ready(t)
    /\ Becomes(Dynamic_Get(Now(-1), t, Handle, keys))
    /\ UNCHANGED <<hist, ref, waiting, peer, updating>>

Delete(T, requests) ==
  \E t \in T, keys \in requests :
    /\ Ready(t)
    /\ LET S == Dynamic_Delete(Now(-1), t, Handle, keys)
       IN /\ Becomes(S)
          /\ hist' = NextHist(S, {}, Range(keys))
          /\ ref' = NextRef(S, {}, Range(keys))
    /\ UNCHANGED <<waiting, peer, updating>>

AllocateIdsCall(T, sizes) ==
  \E t \in T, size \in sizes :
    /\ Ready(t)
    /\ current_transaction = 0
    /\ Len(issued) < MaxIssues
    /\ Becomes(Dynamic_AllocateIds(Now(-1), t, kNew0, size))
    /\ UNCHANGED <<hist, ref, waiting, peer, updating>>

BeginTransaction(T) ==
  \E t \in T :
    /\ t \notin waiting
    /\ CanAcquire(t)
    /\ current_transaction = 0
    /\ next_tx_handle <= MaxTx
    /\ LET S == Dynamic_BeginTransaction(Now(-1), t, OwnApp)
       IN /\ Becomes(S)
          /\ hist' = IF S.exc # "" THEN hist
                     ELSE [thread |-> t, snap |-> Content(S.durable.tables),
                           disp |-> S.dispatched, log |-> EmptyFn]
          /\ waiting' = IF S.exc = "Blocked" THEN waiting \cup {t}
                        ELSE waiting
    /\ UNCHANGED <<ref, peer, updating>>

\* BeginTransaction by the thread of the running transaction
BeginWhileActive(T) ==
  \E t \in T :
    /\ t \notin waiting
    /\ CanAcquire(t)
    /\ current_transaction # 0
    /\ connection_lock.count < MaxHeld
    /\ Becomes(Dynamic_BeginTransaction(Now(-1), t, OwnApp))
    /\ UNCHANGED <<hist, ref, waiting, peer, updating>>

\* BeginTransaction by a thread that finds the connection lock held by
\* another: the call stays in self.__connection_lock.acquire()
BeginWait(T) ==
  \E t \in T :
    /\ t \notin waiting
    /\ ~CanAcquire(t)
    /\ waiting' = waiting \cup {t}
    /\ UNCHANGED <<stubFields, backendFields, issued, served, moved, hist, ref,
                   peer, updating>>

\* the lock is free: a waiting call goes on
BeginResume(T) ==
  \E t \in T \cap waiting :
    /\ CanAcquire(t)
    /\ connection_lock.owner # t
    /\ next_tx_handle <= MaxTx
    /\ LET S == Dynamic_BeginTransaction(Now(-1), t, OwnApp)
       IN /\ Becomes(S)
          /\ hist' = IF S.exc # "" THEN hist
                     ELSE [thread |-> t, snap |-> Content(S.durable.tables),
                           disp |-> S.dispatched, log |-> EmptyFn]
          /\ waiting' = IF S.exc = "Blocked" THEN waiting
                        ELSE waiting \ {t}
    /\ UNCHANGED <<ref, peer, updating>>

AddActionsOf(T, counts) ==
  \E t \in T, n \in counts :
    /\ Ready(t)
    /\ current_transaction # 0
    /\ Becomes(Dynamic_AddActions(Now(-1), OwnApp, Handle, n))
    /\ UNCHANGED <<hist, ref, waiting, peer, updating>>

AddActions(T) == AddActionsOf(T, ActionCounts)

\* Commit by the thread of the transaction.  The backend may raise an error
\* at a statement of the commit, and the task queue may refuse an action.
Commit(T, faults) ==
  \E t \in T, fault \in faults, order \in Orders(DOMAIN tx_writes),
     drop \in Drops :
    /\ t \notin waiting
    /\ current_transaction # 0
    /\ hist.thread = t
    /\ LET S == Dynamic_Commit(Now(fault), t, Handle, order, drop)
       IN /\ Becomes(S)
          /\ hist' = IF S.current_transaction = 0 THEN NoHist ELSE hist
          /\ ref' = IF S.exc = "" THEN Overlay(ref, hist.log) ELSE ref
    /\ UNCHANGED <<waiting, peer, updating>>

Rollback(T) ==
  \E t \in T :
    /\ t \notin waiting
    /\ CanAcquire(t)
    /\ current_transaction # 0
    /\ hist.thread = t
    /\ LET S == Dynamic_Rollback(Now(-1), t, Handle)
       IN /\ Becomes(S)
          /\ hist' = IF S.current_transaction = 0 THEN NoHist ELSE hist
    /\ UNCHANGED <<ref, waiting, peer, updating>>

\* Commit with any handle: that of the running transaction, an earlier one
\* or none
CommitOf(T, handles, faults) ==
  \E t \in T, h \in handles, fault \in faults,
     order \in Orders(DOMAIN tx_writes) :
    /\ Ready(t)
    /\ LET S == Dynamic_Commit(Now(fault), t, h, order, {})
       IN /\ Becomes(S)
          /\ hist' = IF S.current_transaction = 0 THEN NoHist ELSE hist
          /\ ref' = IF S.exc = "" THEN Overlay(ref, hist.log) ELSE ref
    /\ UNCHANGED <<waiting, peer, updating>>

\* Rollback with any handle
RollbackOf(T, handles, faults) ==
  \E t \in T, h \in handles, fault \in faults :
    /\ Ready(t)
    /\ connection_lock.count < MaxHeld
    /\ LET S == Dynamic_Rollback(Now(fault), t, h)
       IN /\ Becomes(S)
          /\ hist' = IF S.current_transaction = 0 THEN NoHist ELSE hist
    /\ UNCHANGED <<ref, waiting, peer, updating>>

\* RunQuery; the query carries the handle of the running transaction
RunQuery(T, queries) ==
  \E t \in T, query \in queries :
    /\ Ready(t)
    /\ next_cursor_id <= MaxCursors
    /\ Becomes(Dynamic_RunQuery(Now(-1), t, [query EXCEPT !.h = Handle]))
    /\ UNCHANGED <<hist, ref, waiting, peer, updating>>

\* the query of a cursor, with the compiled cursor its last batch returned
Again(id) ==
  [served[id].query EXCEPT !.compiled_cursor = <<served[id].compiled_cursor>>]

\* RunQuery of the query of an earlier cursor with that compiled cursor
ResumeQuery(T) ==
  \E t \in T, id \in DOMAIN served :
    /\ Ready(t)
    /\ next_cursor_id <= MaxCursors
    /\ Becomes(Dynamic_RunQuery(Now(-1), t, Again(id)))
    /\ UNCHANGED <<hist, ref, waiting, peer, updating>>

\* Next on a cursor a RunQuery has returned
\* (the handler never calls __GetConnection: the call does not wait for the
\* connection lock)
NextCall(T, counts) ==
  \E t \in T, id \in DOMAIN cursors, count \in counts :
    /\ t \notin waiting
    /\ Becomes(Dynamic_Next(Now(-1), OwnApp, id, count))
    /\ UNCHANGED <<hist, ref, waiting, peer, updating>>

\* Count; the query carries the handle of the running transaction
CountCall(T, queries) ==
  \E t \in T, query \in queries :
    /\ Ready(t)
    /\ Becomes(Dynamic_Count(Now(-1), t, [query EXCEPT !.h = Handle]))
    /\ UNCHANGED <<hist, ref, waiting, peer, updating>>

\* The peer, a second stub on the same backend, runs the first operation of
\* a transaction on an entity group: its session gets the lock of the group
\* from GET_LOCK unless this stub's session holds it until the timeout has
\* passed, and the peer goes on in both cases
PeerEnter(groups) ==
  \E g \in groups :
    /\ ~peer.inside
    /\ peer' = [inside |-> TRUE, group |-> g]
    /\ locks' = IF <<LockStr(g), "self">> \in locks THEN locks
                ELSE locks \cup {<<LockStr(g), "peer">>}
    /\ UNCHANGED <<stubFields, tables, IdSeq, durable, dispatched, issued,
                   served, moved, hist, ref, waiting,
                 updating>>

\* The peer commits or rolls back: RELEASE_LOCK of the lock of its group
PeerEnd ==
  /\ peer.inside
  /\ peer' = [inside |-> FALSE, group |-> <<>>]
  /\ locks' = locks \ {<<LockStr(peer.group), "peer">>}
  /\ UNCHANGED <<stubFields, tables, IdSeq, durable, dispatched, issued,
                 served, moved, hist, ref, waiting,
                 updating>>

CreateIndex(T) ==
  \E t \in T, definition \in IndexDefinitions, id \in RequestIds :
    /\ Ready(t)
    /\ Becomes(Dynamic_CreateIndex(
                 Now(-1), t, CompositeIndex(OwnApp, id, definition, WRITE_ONLY)))
    /\ UNCHANGED <<hist, ref, waiting, peer, updating>>

UpdateIndex(T) ==
  \E t \in T, definition \in IndexDefinitions, state \in IndexStates :
    /\ Ready(t)
    /\ Becomes(Dynamic_UpdateIndex(
                 Now(-1), CompositeIndex(OwnApp, 0, definition, state)))
    /\ UNCHANGED <<hist, ref, waiting, peer, updating>>

\* CreateIndex of an index of one of some definitions, without an id
CreateIndexOf(T, definitions) ==
  \E t \in T, definition \in definitions :
    /\ Ready(t)
    /\ Becomes(Dynamic_CreateIndex(
                 Now(-1), t, CompositeIndex(OwnApp, 0, definition, WRITE_ONLY)))
    /\ UNCHANGED <<hist, ref, waiting, peer, updating>>

\* _Dynamic_UpdateIndex up to the line before self.__index_lock.acquire()
UpdateCheck(T, definitions) ==
  \E t \in T, definition \in definitions, state \in IndexStates :
    /\ t \notin waiting
    /\ updating[t] = <<>>
    /\ LET index == CompositeIndex(OwnApp, 0, definition, state)
           S == UpdateIndexChecks(Now(-1), index)
       IN /\ Becomes(S)
          /\ updating' =
               IF S.exc # "" THEN updating
               ELSE [updating EXCEPT
                       ![t] = <<[id |-> S.indexes[FindIndex(S, index)].id,
                                 state |-> state]>>]
    /\ UNCHANGED <<hist, ref, waiting, peer>>

\* the rest of the call: the state is written under self.__index_lock
UpdateWrite(T) ==
  \E t \in T :
    /\ updating[t] # <<>>
    /\ Becomes(UpdateIndexWrite(Now(-1), updating[t][1].id,
                                updating[t][1].state))
    /\ updating' = [updating EXCEPT ![t] = <<>>]
    /\ UNCHANGED <<hist, ref, waiting, peer>>

DeleteIndex(T) ==
  \E t \in T, definition \in IndexDefinitions :
    /\ Ready(t)
    /\ Becomes(Dynamic_DeleteIndex(
                 Now(-1), t, CompositeIndex(OwnApp, 0, definition, DELETED)))
    /\ UNCHANGED <<hist, ref, waiting, peer, updating>>

GetIndices(T) ==
  \E t \in T :
    /\ Ready(t)
    /\ Becomes(Dynamic_GetIndices(Now(-1), OwnApp))
    /\ UNCHANGED <<hist, ref, waiting, peer, updating>>

\* GetSchema of a client that has no transaction running
GetSchema(T, apps) ==
  \E t \in T, app \in apps, properties \in BOOLEAN :
    /\ Ready(t)
    /\ current_transaction = 0
    /\ Becomes(Dynamic_GetSchema(Now(-1), t, app, Ns0[2], properties))
    /\ UNCHANGED <<hist, ref, waiting, peer, updating>>

----------------------------------------------------------------------------
\* The stub after construction over an empty database

Init ==
  /\ namespaces = {}
  /\ id_map = EmptyFn
  /\ id_lock = FALSE
  /\ tx_actions = <<>>
  /\ transactions = EmptyFn
  /\ inside_tx = FALSE
  /\ tx_lock = FALSE
  /\ connection_lock = [owner |-> 0, count |-> 0]
  /\ current_transaction = 0
  /\ next_tx_handle = 1
  /\ tx_writes = EmptyFn
  /\ tx_deletes = {}
  /\ next_cursor_id = 1
  /\ cursors = EmptyFn
  /\ indexes = <<>>
  /\ tables = EmptyFn
  /\ IdSeq = EmptyFn
  /\ durable = [tables |-> EmptyFn, IdSeq |-> EmptyFn]
  /\ locks = {}
  /\ dispatched = <<>>
  /\ issued = <<>>
  /\ served = EmptyFn
  /\ moved = {}
  /\ hist = NoHist
  /\ ref = EmptyFn
  /\ waiting = {}
  /\ peer = [inside |-> FALSE, group |-> <<>>]
  /\ updating = NoUpdates

\* the state record of Init
Fresh ==
  [namespaces |-> {}, id_map |-> EmptyFn, id_lock |-> FALSE,
   tx_actions |-> <<>>, transactions |-> EmptyFn, inside_tx |-> FALSE,
   tx_lock |-> FALSE, connection_lock |-> [owner |-> 0, count |-> 0],
   current_transaction |-> 0, next_tx_handle |-> 1, tx_writes |-> EmptyFn,
   tx_deletes |-> {}, next_cursor_id |-> 1, cursors |-> EmptyFn,
   indexes |-> <<>>, tables |-> EmptyFn, IdSeq |-> EmptyFn,
   durable |-> [tables |-> EmptyFn, IdSeq |-> EmptyFn], locks |-> {},
   dispatched |-> <<>>, issued |-> <<>>, served |-> EmptyFn, moved |-> {},
   exc |-> "", fault |-> -1, ret |-> 0, req |-> <<>>, resp |-> <<>>]

\* the state is that of record S
Is(S) ==
  /\ namespaces = S.namespaces
  /\ id_map = S.id_map
  /\ id_lock = S.id_lock
  /\ tx_actions = S.tx_actions
  /\ transactions = S.transactions
  /\ inside_tx = S.inside_tx
  /\ tx_lock = S.tx_lock
  /\ connection_lock = S.connection_lock
  /\ current_transaction = S.current_transaction
  /\ next_tx_handle = S.next_tx_handle
  /\ tx_writes = S.tx_writes
  /\ tx_deletes = S.tx_deletes
  /\ next_cursor_id = S.next_cursor_id
  /\ cursors = S.cursors
  /\ indexes = S.indexes
  /\ tables = S.tables
  /\ IdSeq = S.IdSeq
  /\ durable = S.durable
  /\ locks = S.locks
  /\ dispatched = S.dispatched
  /\ issued = S.issued
  /\ served = S.served
  /\ moved = S.moved

\* The stub over a database that holds entities, as a Put has stored them
InitCursor ==
  /\ \E db \in Databases : Is(Dynamic_Put(Fresh, 1, 0, db))
  /\ hist = NoHist
  /\ ref = EmptyFn
  /\ waiting = {}
  /\ peer = [inside |-> FALSE, group |-> <<>>]
  /\ updating = NoUpdates

\* Queries of one thread over a database that does not change
NextCursor ==
  \/ RunQuery({1}, CursorQueries)
  \/ NextCall({1}, NextCounts)

SpecCursor == InitCursor /\ [][NextCursor]_vars

\* Queries that are run again with the compiled cursors of their batches
NextResume ==
  \/ RunQuery({1}, ResumeQueries)
  \/ ResumeQuery({1})
  \/ NextCall({1}, NextCounts)

SpecResume == InitCursor /\ [][NextResume]_vars

\* Two threads that run queries, fetch batches and run transactions
FetchQueries == {Query(0, <<>>, <<>>, -1, -1, 1)}

NextFetch ==
  \/ RunQuery(Threads, FetchQueries)
  \/ NextCall(Threads, {1})
  \/ BeginTransaction(Threads)
  \/ BeginWait(Threads)
  \/ BeginResume(Threads)
  \/ Put(Threads, {<<Ent(kRoot0, 1)>>})
  \/ Commit(Threads, {-1})

SpecFetch == InitCursor /\ [][NextFetch]_vars

\* Batches over two namespaces, with and without a transaction
BatchPuts ==
  {<<Ent(kRoot0, v)>> : v \in {1, 2}} \cup
  {<<Ent(kRoot0, v), Ent(kRoot1, w)>> : v \in {1, 2}, w \in {1, 2}}

BatchDeletes == {<<kRoot0>>, <<kRoot1>>, <<kRoot1, kRoot0>>}

NextBatches ==
  \/ Put({1}, BatchPuts)
  \/ Delete({1}, BatchDeletes)
  \/ BeginTransaction({1})
  \/ Commit({1}, {-1})

SpecBatches == Init /\ [][NextBatches]_vars

\* Two name spaces of the app whose names differ in a character that
\* formatTableName removes: "n" and "n-"
NsDash == <<OwnApp, <<110, 45>> >>

kDash == Key(OwnApp, NsDash[2], <<NameElem(KindA, NameM)>>)

kDashChild ==
  Key(OwnApp, NsDash[2], <<NameElem(KindA, NameM), NameElem(KindB, NameM)>>)

NameKeys == {kRoot1, kDash, kDashChild}

NextNames ==
  \/ Put({1}, {<<Ent(k, v)>> : k \in NameKeys, v \in {1, 2}})
  \/ Get({1}, {<<k>> : k \in NameKeys})
  \/ Delete({1}, {<<k>> : k \in NameKeys})

SpecNames == Init /\ [][NextNames]_vars

\* Cursors that are read to their end in batches of several sizes; -1 is
\* a request without count
BatchCounts == {-1, 1, 2}

MoreQueries ==
  {Query(0, <<>>, order, limit, -1, 1) :
     order \in CursorOrders, limit \in {-1, 2}}

NextMore ==
  \/ RunQuery({1}, MoreQueries)
  \/ NextCall({1}, BatchCounts)

SpecMore == InitCursor /\ [][NextMore]_vars

\* Two threads that create indexes and update their states, the two steps
\* of an update taken one by one
RaceDefinitions == {CHOOSE definition \in IndexDefinitions : TRUE}

NextRace ==
  \/ CreateIndexOf(Threads, RaceDefinitions)
  \/ UpdateCheck(Threads, RaceDefinitions)
  \/ UpdateWrite(Threads)

SpecRace == Init /\ [][NextRace]_vars

\* Queries with filters over a database that does not change
NextPlan ==
  \/ RunQuery({1}, PlanRuns)
  \/ NextCall({1}, {-1})

SpecPlan == InitCursor /\ [][NextPlan]_vars

\* Queries that are counted and read to their end over a database that
\* does not change
NextCount ==
  \/ RunQuery({1}, CountQueries)
  \/ NextCall({1}, NextCounts)
  \/ CountCall({1}, CountQueries)

SpecCount == InitCursor /\ [][NextCount]_vars

\* Queries inside and outside the transactions of one thread
NextQueryTx ==
  \/ BeginTransaction({1})
  \/ Put({1}, {<<Ent(kRoot0, 1)>>})
  \/ Delete({1}, {<<kRoot1>>})
  \/ RunQuery({1}, TxQueries)
  \/ CountCall({1}, TxQueries)
  \/ Commit({1}, {-1})
  \/ Rollback({1})

SpecQueryTx == Init /\ [][NextQueryTx]_vars

\* Transactions of one thread that are ended with any handle, over a
\* backend that can fail in Commit and Rollback
NextEnd ==
  \/ BeginTransaction({1})
  \/ Put({1}, {<<Ent(kRoot0, 1)>>})
  \/ CommitOf({1}, EndHandles, EndFaults)
  \/ RollbackOf({1}, EndHandles, EndFaults)

SpecEnd == Init /\ [][NextEnd]_vars

\* the calls of a client of the application and of a client that names
\* another application in GetSchema
NextApps ==
  \/ BeginTransaction({1})
  \/ Put({1}, {<<Ent(kRoot0, 1)>>})
  \/ RunQuery({1}, {Query(0, <<>>, <<>>, -1, -1, 1)})
  \/ GetSchema({1}, {OwnApp, OtherApp})
  \/ Commit({1}, {-1})
  \/ Rollback({1})

SpecApps == Init /\ [][NextApps]_vars

\* Entities of one kind under two roots, and the queries by ancestor
NextAncestor ==
  \/ Put({1}, AncestorPuts)
  \/ Delete({1}, AncestorDeletes)
  \/ RunQuery({1}, AncestorQueries)

SpecAncestor == Init /\ [][NextAncestor]_vars

\* the composite indexes of the application
NextIndex ==
  \/ CreateIndex({1})
  \/ UpdateIndex({1})
  \/ DeleteIndex({1})
  \/ GetIndices({1})

SpecIndex == Init /\ [][NextIndex]_vars

\* Transactions that queue actions and write one entity
NextActions ==
  \/ BeginTransaction({1})
  \/ Put({1}, {<<Ent(kRoot0, 1)>>})
  \/ AddActionsOf({1}, QueueCounts)
  \/ Commit({1}, {-1})
  \/ Rollback({1})

SpecActions == Init /\ [][NextActions]_vars

\* The store without transactions: one thread, all requests
NextStore ==
  \/ Put({1}, PutRequests)
  \/ Get({1}, GetRequests)
  \/ Delete({1}, DeleteRequests)

SpecStore == Init /\ [][NextStore]_vars

\* Id allocation: AllocateIds calls and puts of an incomplete key, inside
\* and outside transactions that commit or roll back
NextIds ==
  \/ AllocateIdsCall({1}, AllocateSizes)
  \/ Put({1}, {<<Ent(kNew0, 1)>>})
  \/ BeginTransaction({1})
  \/ Commit({1}, {-1})
  \/ Rollback({1})

SpecIds == Init /\ [][NextIds]_vars

\* Transactions of one thread over two name spaces
NextTx ==
  \/ Put({1}, TxPuts)
  \/ Get({1}, TxGets)
  \/ Delete({1}, TxDeletes)
  \/ BeginTransaction({1})
  \/ AddActions({1})
  \/ Commit({1}, CommitFaults)
  \/ Rollback({1})

SpecTx == Init /\ [][NextTx]_vars

\* Two threads that begin, fill and end transactions
NextThreads ==
  \/ BeginTransaction(Threads)
  \/ BeginWhileActive(Threads)
  \/ BeginWait(Threads)
  \/ BeginResume(Threads)
  \/ Put(Threads, {<<Ent(kRoot0, 1)>>})
  \/ Delete(Threads, {<<kRoot0>>})
  \/ Commit(Threads, {-1})
  \/ Rollback(Threads)

SpecThreads == Init /\ [][NextThreads]_vars

\* Transactions of this stub and of the peer on the same entity groups
NextGroups ==
  \/ BeginTransaction({1})
  \/ Put({1}, {<<Ent(kRoot0, 1)>>, <<Ent(kChild0, 1)>>})
  \/ Get({1}, {<<kRoot0>>})
  \/ Commit({1}, {-1})
  \/ Rollback({1})
  \/ PeerEnter({KindA, KindB})
  \/ PeerEnd

SpecGroups == Init /\ [][NextGroups]_vars

----------------------------------------------------------------------------
\* Claims

\* C1: every id range issued for a prefix starts above all ids issued for
\* that prefix before it, so that no id is issued twice; and AllocateIds of
\* size ids answers the range start .. start + size - 1.
C1_IdsIssuedOnce ==
  /\ \A i, j \in 1..Len(issued) :
       i < j /\ issued[i].prefix = issued[j].prefix
         => issued[i].start + issued[i].size <= issued[j].start
  /\ \A size \in AllocateSizes :
       current_transaction = 0 =>
         LET S == Dynamic_AllocateIds(Now(-1), 1, kNew0, size)
         IN S.exc = "" /\ S.resp = <<S.ret, S.ret + size - 1>>

\* C2: while a transaction runs, a Put or Delete carrying its handle (any
\* step that leaves the transaction running) changes no row of the durable
\* entity and index tables.
C2_TxWritesAreBuffered ==
  [][(current_transaction # 0 /\ current_transaction' = current_transaction)
       => Content(durable.tables)' = Content(durable.tables)]_vars

\* a transaction has buffered a put and a delete that the durable tables do
\* not show
C2_Witness ==
  /\ current_transaction # 0
  /\ tx_deletes # {}
  /\ \E k \in DOMAIN tx_writes : Lookup(durable.tables, k) # <<tx_writes[k]>>
  /\ \E k \in tx_deletes : Lookup(durable.tables, k) # <<>>

\* a transaction is running whose BeginTransaction has returned
Begun == current_transaction # 0 /\ hist.thread # 0

\* C3: after a Commit that succeeds, every key the transaction has put or
\* deleted holds what its last operation on the key says: the entity of the
\* put, or nothing after a delete.
C3_CommitAppliesLastOperation ==
  Begun =>
    \A order \in Orders(DOMAIN tx_writes) :
      LET S == Dynamic_Commit(Now(-1), hist.thread, Handle, order, {})
      IN S.exc = "" =>
           \A k \in DOMAIN hist.log : Lookup(S.durable.tables, k) = hist.log[k]

\* C4: a Commit that fails at one of its statements makes none of the
\* buffered writes and deletes durable.
C4_CommitAllOrNothing ==
  Begun =>
    \A fault \in CommitFaults \ {-1}, order \in Orders(DOMAIN tx_writes) :
      LET S == Dynamic_Commit(Now(fault), hist.thread, Handle, order, {})
      IN S.exc # "" => Content(S.durable.tables) = Content(durable.tables)

\* C5: a Rollback of the running transaction, whatever the transaction has
\* put, got, deleted and queued, succeeds and leaves the durable entity and
\* index tables as they were when the transaction began, and hands no
\* queued action to the task queue.
C5_RollbackRestores ==
  Begun =>
    LET S == Dynamic_Rollback(Now(-1), hist.thread, Handle)
    IN /\ S.exc = ""
       /\ S.current_transaction = 0
       /\ Content(S.durable.tables) = hist.snap
       /\ S.dispatched = hist.disp

\* a transaction with buffered puts and deletes and queued actions, over a
\* store that is not empty, which Rollback ends
C5_Witness ==
  /\ current_transaction # 0
  /\ DOMAIN tx_writes # {}
  /\ tx_deletes # {}
  /\ tx_actions # <<>>
  /\ hist.snap # {}
  /\ LET S == Dynamic_Rollback(Now(-1), hist.thread, Handle)
     IN S.current_transaction = 0 /\ S.tx_writes = EmptyFn /\ S.tx_actions = <<>>

\* a call leaves the running transaction, its handle and its buffers alone
SameTransaction(S) ==
  /\ S.current_transaction = current_transaction
  /\ S.next_tx_handle = next_tx_handle
  /\ S.transactions = transactions
  /\ S.tx_writes = tx_writes
  /\ S.tx_deletes = tx_deletes
  /\ S.tx_actions = tx_actions

\* C6 as the specification states it: while a transaction runs, no call of
\* BeginTransaction waits, and a call by any thread fails with an error and
\* leaves the transaction, its handle and its buffers unchanged.
C6_BeginFailsAtOnce ==
  current_transaction # 0 =>
    /\ waiting = {}
    /\ \A t \in Threads :
         /\ CanAcquire(t)
         /\ LET S == Dynamic_BeginTransaction(Now(-1), t, OwnApp)
            IN S.exc # "" /\ SameTransaction(S)

\* C6, amended: while a transaction runs, BeginTransaction called by the
\* thread of the transaction fails at once with an AssertionError and leaves
\* the transaction, its handle and its buffers unchanged; called by another
\* thread it cannot take the connection lock, which the thread of the
\* transaction holds, and waits.
C6_BeginFailsOrWaits ==
  current_transaction # 0 =>
    \A t \in Threads :
      IF t = hist.thread
        THEN /\ CanAcquire(t)
             /\ LET S == Dynamic_BeginTransaction(Now(-1), t, OwnApp)
                IN S.exc = "AssertionError" /\ SameTransaction(S)
        ELSE ~CanAcquire(t)

\* the thread of a transaction with buffered writes has called
\* BeginTransaction again, and the call of another thread waits
C6_Witness ==
  /\ current_transaction # 0
  /\ DOMAIN tx_writes # {}
  /\ connection_lock.count > 1
  /\ waiting # {}
  /\ hist.thread \notin waiting

\* C7: the transactions of two stubs on one backend are never both past
\* the lock acquisition of the same entity group; and a first operation
\* that finds the lock of its group held by the peer until the timeout has
\* passed fails with a Contention error and buffers nothing.
C7_GroupLockExcludes ==
  current_transaction # 0 /\ peer.inside =>
    /\ inside_tx => GroupOf(Now(-1), current_transaction) # peer.group
    /\ \A entities \in {<<Ent(kRoot0, 1)>>, <<Ent(kChild0, 1)>>} :
         ~inside_tx /\ GetEntityKind(entities[1].key) = peer.group
                    /\ <<LockStr(peer.group), "peer">> \in locks
           => LET S == Dynamic_Put(Now(-1), hist.thread, Handle, entities)
              IN S.exc = "Contention" /\ S.tx_writes = tx_writes

\* what Get of key k answers in state S: <<entity>> or <<>>
GetOf(S, k) == Dynamic_Get([S EXCEPT !.resp = <<>>], 1, 0, <<k>>).resp[1]

\* C8: outside a transaction, Get of a key answers the entity of the most
\* recent Put under that key as long as no Delete of the key came after it,
\* whatever was put and deleted under other keys in between.
C8_GetAnswersLastPut ==
  current_transaction = 0 =>
    \A k \in DOMAIN ref : ref[k] # <<>> => GetOf(Now(-1), k) = ref[k]

\* C9: a Delete without a transaction succeeds and changes nothing for the
\* keys it does not name, and a Delete of keys that are all absent leaves
\* the whole store unchanged.
C9_DeleteLeavesOtherKeys ==
  current_transaction = 0 =>
    \A keys \in DeleteRequests :
      LET S == Dynamic_Delete(Now(-1), 1, 0, keys)
      IN /\ S.exc = ""
         /\ \A k \in StoredKeys \ Range(keys) :
              GetOf(S, k) = GetOf(Now(-1), k)
         /\ (\A k \in Range(keys) : k \notin DOMAIN ref \/ ref[k] = <<>>)
              => Content(S.durable.tables) = Content(durable.tables)

\* C10: after a Delete without a transaction, Get answers absent for every
\* key of the request and no index row of any of them remains, also when
\* the keys belong to several name spaces.
C10_DeleteRemovesEveryKey ==
  current_transaction = 0 =>
    \A keys \in DeleteRequests :
      LET S == Dynamic_Delete(Now(-1), 1, 0, keys)
      IN \A k \in Range(keys) :
           GetOf(S, k) = <<>> /\ IndexOf(S.durable.tables, k) = {}

\* C11: over the lifetime of a cursor, its first batch and the batches of
\* its Next calls together, no entity path is delivered twice, also when
\* the rows of the query hold a path several times and when an offset was
\* skipped.
C11_NoPathTwice ==
  \A id \in DOMAIN served :
    \A i, j \in 1..Len(served[id].out) :
      i # j => served[id].out[i] # served[id].out[j]

\* a cursor that delivers one path a batch has fetched two rows of one
\* path, has delivered that path and has delivered another path after the
\* second of these rows
C11_Witness ==
  \E id \in DOMAIN cursors :
    \E i, j \in 1..cursors[id].at :
      /\ served[id].query.count = 1
      /\ i < j
      /\ cursors[id].rows[i].path = cursors[id].rows[j].path
      /\ \E n \in 1..(Len(served[id].out) - 1) :
           served[id].out[n] = cursors[id].rows[i].path
      /\ served[id].out[Len(served[id].out)] = cursors[id].rows[cursors[id].at].path
      /\ j < cursors[id].at

\* C12: the first batch of a RunQuery and the batch of a Next hold at most
\* the count the request asks for, and all batches of a cursor together hold
\* at most the limit of its query, also when the query carries a compiled
\* cursor.
C12_WithinCountAndLimit ==
  /\ \A id \in DOMAIN served :
       served[id].query.limit >= 0
         => Len(served[id].out) <= served[id].query.limit
  /\ \A query \in ResumeQueries \cup {Again(id) : id \in DOMAIN served} :
       query.count >= 0
         => Len(Dynamic_RunQuery(Now(-1), 1, query).resp.result) <= query.count
  /\ \A id \in DOMAIN cursors, count \in NextCounts :
       count >= 0
         => Len(Dynamic_Next(Now(-1), OwnApp, id, count).resp.result) <= count

\* the paths of a sequence of rows, each once, in the order of their first
\* rows
RECURSIVE UniquePaths(_)
UniquePaths(rows) ==
  IF rows = <<>> THEN <<>>
  ELSE <<rows[1].path>>
         \o UniquePaths(SelectSeq(rows, LAMBDA r : r.path # rows[1].path))

\* the place of a path in a sequence of paths
PlaceOf(path, paths) == CHOOSE n \in 1..Len(paths) : paths[n] = path

\* C13: when a cursor has delivered results and the data has not changed,
\* RunQuery of its query with the compiled cursor of its last batch delivers
\* the results that follow the last delivered one in the order of the query:
\* none from before, none left out, and at least one when there is one.
C13_ResumeFollowsLastResult ==
  \A id \in DOMAIN served :
    served[id].out # <<>> /\ served[id].query.compiled_cursor = <<>> =>
      LET all == UniquePaths(SelectRows(tables, served[id].query))
          k == PlaceOf(served[id].out[Len(served[id].out)], all)
          S == Dynamic_RunQuery(Now(-1), 1, Again(id))
      IN /\ S.exc = ""
         /\ Len(S.resp.result) <= Len(all) - k
         /\ \A i \in 1..Len(S.resp.result) : S.resp.result[i] = all[k + i]
         /\ k < Len(all) => S.resp.result # <<>>

\* the transaction that runs in the state stays as it is in S
TransactionKept(S) ==
  /\ S.current_transaction = current_transaction
  /\ S.transactions = transactions
  /\ S.tx_writes = tx_writes
  /\ S.tx_deletes = tx_deletes
  /\ S.connection_lock = connection_lock

\* C14: inside a transaction, a RunQuery and a Count of a query without an
\* ancestor fail with BAD_REQUEST before the backend is given a statement
\* (so also when the backend would fail at its next statement), the
\* transaction stays active and its write-set and delete-set stay as they
\* are; the query with an ancestor succeeds in the transaction.
C14_TxQueryNeedsAncestor ==
  current_transaction # 0 =>
    \A query \in TxQueries :
      LET q == [query EXCEPT !.h = Handle]
      IN IF q.ancestor = <<>>
           THEN /\ Dynamic_RunQuery(Now(0), hist.thread, q).exc = "BAD_REQUEST"
                /\ TransactionKept(Dynamic_RunQuery(Now(0), hist.thread, q))
                /\ Dynamic_RunQuery(Now(0), hist.thread, q).cursors = cursors
                /\ Dynamic_Count(Now(0), hist.thread, q).exc = "BAD_REQUEST"
                /\ TransactionKept(Dynamic_Count(Now(0), hist.thread, q))
           ELSE /\ Dynamic_RunQuery(Now(-1), hist.thread, q).exc = ""
                /\ TransactionKept(Dynamic_RunQuery(Now(-1), hist.thread, q))
                /\ Dynamic_Count(Now(-1), hist.thread, q).exc = ""
                /\ TransactionKept(Dynamic_Count(Now(-1), hist.thread, q))

\* a transaction with a buffered write and a buffered delete has run a query
\* with an ancestor, whose cursor delivered an entity
C14_Witness ==
  /\ current_transaction # 0
  /\ tx_writes # EmptyFn
  /\ tx_deletes # {}
  /\ \E id \in DOMAIN served :
       /\ served[id].query.h = current_transaction
       /\ served[id].query.ancestor # <<>>
       /\ served[id].out # <<>>

\* C15: the queue of side-actions never holds more than 5 actions, and an
\* AddActions call whose requests would bring it above 5 fails with
\* BAD_REQUEST at the call and leaves the queue as it is.
C15_QueueAtMostFive ==
  /\ Len(tx_actions) <= 5
  /\ \A n \in 0..6 :
       Len(tx_actions) + n > 5 =>
         /\ Dynamic_AddActions(Now(-1), OwnApp, Handle, n).exc = "BAD_REQUEST"
         /\ Dynamic_AddActions(Now(-1), OwnApp, Handle, n).tx_actions
              = tx_actions

\* the queue of the running transaction is full
C15_Witness == current_transaction # 0 /\ Len(tx_actions) = 5

\* the statements of a Commit that apply the buffered writes and deletes
Applied(S, order) ==
  DeleteEntities(PutEntities(S, [i \in 1..Len(order) |-> S.tx_writes[order[i]]]),
                 S.tx_deletes)

\* C16: a Commit hands the queued actions to the task queue only after its
\* statements for the buffered writes and deletes have run: when one of
\* these statements fails, no action is dispatched.  When they have run,
\* the Commit succeeds whichever actions the task queue refuses (the
\* backend raising at none of its statements), the tables it commits are
\* those the statements have written, and every action that is not refused
\* is dispatched.
C16_DispatchAfterApply ==
  Begun =>
    \A order \in Orders(DOMAIN tx_writes), drop \in SUBSET (1..Len(tx_actions)),
       fault \in -1..3 :
      IF Applied(Now(fault), order).exc # ""
        THEN Dynamic_Commit(Now(fault), hist.thread, Handle, order, drop)
               .dispatched = dispatched
        ELSE /\ Applied(Now(fault), order).fault # 0 =>
                  Dynamic_Commit(Now(fault), hist.thread, Handle, order, drop)
                    .exc = ""
             /\ Dynamic_Commit(Now(fault), hist.thread, Handle, order, drop)
                  .durable.tables = Applied(Now(fault), order).tables
             /\ Len(Dynamic_Commit(Now(fault), hist.thread, Handle, order, drop)
                      .dispatched)
                  = Len(dispatched) + Len(tx_actions) - Cardinality(drop)

\* a transaction with a buffered write and two or more queued actions runs
\* after a Commit that has written its entity and dispatched actions
C16_Witness ==
  /\ current_transaction # 0
  /\ tx_writes # EmptyFn
  /\ Len(tx_actions) >= 2
  /\ dispatched # <<>>
  /\ Lookup(durable.tables, kRoot0) # <<>>

\* the changes of state the table of the index states allows
LegalMove(from, to) ==
  <<from, to>> \in {<<WRITE_ONLY, READ_WRITE>>, <<WRITE_ONLY, DELETED>>,
                    <<WRITE_ONLY, ERROR>>, <<READ_WRITE, DELETED>>,
                    <<ERROR, DELETED>>, <<DELETED, ERROR>>}

\* the request of an UpdateIndex for a definition and a state
UpdateRequest(definition, state) ==
  CompositeIndex(OwnApp, 0, definition, state)

\* the state of the index at place i after the UpdateIndex to state
StateAfter(i, state) ==
  Dynamic_UpdateIndex(Now(-1), UpdateRequest(indexes[i].definition, state))
    .indexes[i].state

\* C17: an UpdateIndex call changes the state of no index except along
\* WRITE_ONLY to READ_WRITE, DELETED or ERROR, READ_WRITE to DELETED, ERROR
\* to DELETED and DELETED to ERROR: a request for one of these changes
\* makes it, and a request for any other change of state is rejected with
\* BadRequest and leaves the indexes as they are.
C17_LegalTransitions ==
  \A i \in 1..Len(indexes), state \in IndexStates :
    /\ Len(Dynamic_UpdateIndex(
             Now(-1), UpdateRequest(indexes[i].definition, state)).indexes)
         = Len(indexes)
    /\ \A j \in 1..Len(indexes) :
         Dynamic_UpdateIndex(
           Now(-1), UpdateRequest(indexes[i].definition, state)).indexes[j]
           = IF j = i /\ LegalMove(indexes[i].state, state)
               THEN [indexes[j] EXCEPT !.state = state]
               ELSE indexes[j]
    /\ Dynamic_UpdateIndex(
         Now(-1), UpdateRequest(indexes[i].definition, state)).exc
         = IF state = indexes[i].state \/ LegalMove(indexes[i].state, state)
             THEN ""
             ELSE "BAD_REQUEST"

\* UpdateIndex calls have made one index READ_WRITE and another ERROR
C17_Witness ==
  /\ \E i \in 1..Len(indexes) : indexes[i].state = READ_WRITE
  /\ \E i \in 1..Len(indexes) : indexes[i].state = ERROR

\* C18 as stated: an UpdateIndex call moves an index in state DELETED to no
\* state but ERROR, and an index that has moved from DELETED to ERROR is in
\* state ERROR ever after.
C18_ErrorIsTerminal ==
  /\ \A i \in 1..Len(indexes), state \in IndexStates :
       indexes[i].state = DELETED => StateAfter(i, state) \in {DELETED, ERROR}
  /\ \A i \in 1..Len(indexes) :
       indexes[i].id \in moved => indexes[i].state = ERROR

\* C18 as amended: an UpdateIndex call moves an index in state DELETED to
\* no state but ERROR, and an index that has moved from DELETED to ERROR to
\* no state but DELETED.
C18_DeletedOnlyToError ==
  /\ \A i \in 1..Len(indexes), state \in IndexStates :
       indexes[i].state = DELETED => StateAfter(i, state) \in {DELETED, ERROR}
  /\ \A i \in 1..Len(indexes), state \in IndexStates :
       indexes[i].id \in moved /\ indexes[i].state = ERROR =>
         StateAfter(i, state) \in {ERROR, DELETED}
  /\ \A i \in 1..Len(indexes) :
       indexes[i].id \in moved => indexes[i].state \in {ERROR, DELETED}

\* an index has moved from DELETED to ERROR and is DELETED again
C18_Witness ==
  \E i \in 1..Len(indexes) :
    indexes[i].id \in moved /\ indexes[i].state = DELETED

\* the request of a CreateIndex for a definition, with an id
CreateRequest(definition, id) ==
  CompositeIndex(OwnApp, id, definition, WRITE_ONLY)

\* the indexes GetIndices lists after a call that ended in state S
Listed(S) == Dynamic_GetIndices([S EXCEPT !.exc = ""], OwnApp).resp

\* C19: a CreateIndex with id 0 and a definition the application does not
\* have yet succeeds, returns an id greater than the id of every index of
\* the application, and GetIndices then lists the index with this id; a
\* CreateIndex with another id or with a definition the application has is
\* rejected with BadRequest and adds no index.
C19_CreateIndex ==
  \A definition \in IndexDefinitions, id \in RequestIds :
    IF id = 0 /\ FindIndex(Now(-1), CreateRequest(definition, id)) = 0
      THEN /\ Dynamic_CreateIndex(Now(-1), 1, CreateRequest(definition, id))
                .exc = ""
           /\ \A i \in 1..Len(indexes) :
                indexes[i].id
                  < Dynamic_CreateIndex(
                      Now(-1), 1, CreateRequest(definition, id)).resp[1]
           /\ \E x \in Listed(Dynamic_CreateIndex(
                             Now(-1), 1, CreateRequest(definition, id))) :
                /\ x.definition = definition
                /\ x.id = Dynamic_CreateIndex(
                            Now(-1), 1, CreateRequest(definition, id)).resp[1]
      ELSE /\ Dynamic_CreateIndex(Now(-1), 1, CreateRequest(definition, id))
                .exc = "BAD_REQUEST"
           /\ Dynamic_CreateIndex(Now(-1), 1, CreateRequest(definition, id))
                .indexes = indexes

\* a key, a query and an index of another application
kOther == Key(OtherApp, Ns0[2], <<NameElem(KindA, NameM)>>)

OtherQueries ==
  {[Query(Handle, ancestor, <<>>, -1, -1, -1) EXCEPT !.app = OtherApp] :
     ancestor \in {<<>>, <<kOther>>}}

OtherIndexes ==
  {CompositeIndex(OtherApp, 0, definition, WRITE_ONLY) :
     definition \in IndexDefinitions}

\* the states in which the calls end whose requests name the other
\* application and the running transaction, if any; the backend fails at
\* its first statement when fault is 0
OtherStore(fault) ==
  {Dynamic_Put(Now(fault), 1, Handle, <<Ent(kOther, 1)>>),
   Dynamic_Get(Now(fault), 1, Handle, <<kOther>>),
   Dynamic_Delete(Now(fault), 1, Handle, <<kOther>>),
   Dynamic_AllocateIds(Now(fault), 1, kOther, 1)}

OtherQuery(fault) ==
  {Dynamic_RunQuery(Now(fault), 1, query) : query \in OtherQueries}
    \cup {Dynamic_Count(Now(fault), 1, query) : query \in OtherQueries}
    \cup {Dynamic_Next(Now(fault), OtherApp, id, -1) :
            id \in DOMAIN cursors \cup {next_cursor_id}}

OtherIndex(fault) ==
  {Dynamic_CreateIndex(Now(fault), 1, index) : index \in OtherIndexes}
    \cup {Dynamic_UpdateIndex(Now(fault), index) : index \in OtherIndexes}
    \cup {Dynamic_DeleteIndex(Now(fault), 1, index) : index \in OtherIndexes}
    \cup {Dynamic_GetIndices(Now(fault), OtherApp)}

OtherSchema(fault) ==
  {Dynamic_GetSchema(Now(fault), 1, OtherApp, Ns0[2], properties) :
     properties \in BOOLEAN}

OtherBegin(fault) ==
  {Dynamic_BeginTransaction(Now(fault), 1, OtherApp)}
    \cup {Dynamic_AddActions(Now(fault), OtherApp, Handle, n) : n \in 1..2}

\* Commit and Rollback of the running transaction: the handlers read the
\* handle of the request and not its application id
OtherEnd(fault) ==
  IF current_transaction = 0 THEN {}
  ELSE {Dynamic_Commit(Now(fault), 1, Handle, order, {}) :
          order \in Orders(DOMAIN tx_writes)}
         \cup {Dynamic_Rollback(Now(fault), 1, Handle)}

\* the faults the calls are tried with: a call that is rejected while the
\* backend fails at its first statement has run no statement.  The first
\* call of a transaction takes the lock of its entity group with a
\* statement of its own, and is tried without the fault.
OtherFaults == IF current_transaction # 0 /\ ~inside_tx THEN {-1} ELSE {-1, 0}

\* the call that ended in state S was rejected with BadRequest and has left
\* the tables, the buffered writes and deletes and the indexes as they were
Refused(S) ==
  /\ S.exc \in {"BadRequestError", "BAD_REQUEST"}
  /\ S.tables = tables
  /\ S.IdSeq = IdSeq
  /\ S.durable = durable
  /\ S.tx_writes = tx_writes
  /\ S.tx_deletes = tx_deletes
  /\ S.indexes = indexes

\* C20: the stub is not trusted, and every call of Put, Get, Delete,
\* AllocateIds, RunQuery, Count, Next, CreateIndex, UpdateIndex, DeleteIndex,
\* GetIndices, GetSchema, BeginTransaction, AddActions, Commit and Rollback
\* whose request names another application is rejected with BadRequest,
\* before the backend has run a statement for it and with the data as they
\* were.
C20_OtherAppRefused ==
  /\ ~Trusted
  /\ \A fault \in OtherFaults :
       \A S \in OtherStore(fault) \cup OtherQuery(fault) \cup OtherIndex(fault)
                  \cup OtherSchema(fault) \cup OtherBegin(fault)
                  \cup OtherEnd(fault) :
         Refused(S)

\* the call that ended in state S has left the connection lock with the
\* calling thread as often as it was before, and the lock of the id
\* allocator free
Released(S) ==
  /\ S.connection_lock = connection_lock
  /\ ~S.id_lock

\* C21: when a call of Put, Get, Delete, RunQuery, Count or AllocateIds has
\* returned or raised, it has released every lock it acquired: whether its
\* request carries the handle of the running transaction or another
\* handle, names this application or another, and whether or not the
\* backend fails at one of its statements.
C21_LocksReleased ==
  \A fault \in -1..1 :
    /\ \A h \in {Handle, Handle + 1}, key \in {kRoot0, kOther} :
         /\ Released(Dynamic_Put(Now(fault), 1, h, <<Ent(key, 1)>>))
         /\ Released(Dynamic_Get(Now(fault), 1, h, <<key>>))
         /\ Released(Dynamic_Delete(Now(fault), 1, h, <<key>>))
         /\ Released(Dynamic_RunQuery(
                       Now(fault), 1, Query(h, <<key>>, <<>>, -1, -1, -1)))
         /\ Released(Dynamic_Count(
                       Now(fault), 1, Query(h, <<key>>, <<>>, -1, -1, -1)))
    /\ \A key \in {kNew0, kOther}, size \in AllocateSizes :
         Released(Dynamic_AllocateIds(Now(fault), 1, key, size))

\* C22: two different keys of one name space that have been put have
\* different encoded paths, and the row under the path of a key that has
\* been put and not deleted holds the entity of that key and of no other.
C22_NoPathCollision ==
  /\ \A k1, k2 \in DOMAIN ref :
       k1 # k2 /\ NsOf(k1) = NsOf(k2)
         => EncodePath(k1.path) # EncodePath(k2.path)
  /\ \A k \in DOMAIN ref :
       ref[k] # <<>> /\ Lookup(tables, k) # <<>>
         => Lookup(tables, k)[1].key = k

\* the path of key begins, element by element, with the path of ancestor
HasAncestor(key, ancestor) ==
  /\ Len(ancestor.path) <= Len(key.path)
  /\ SubSeq(key.path, 1, Len(ancestor.path)) = ancestor.path

\* the encoded paths of the stored entities of the kind of the query that
\* are its ancestor or descend from it
UnderAncestor(query) ==
  {r.path : r \in {x \in Rows(tables, TablePrefix(Ns0), "Entities") :
                     /\ x.kind = query.kind
                     /\ HasAncestor(x.entity.key, query.ancestor[1])}}

\* C23: a query of a kind with an ancestor returns the stored entities of
\* the kind whose key path begins, element by element, with the path of the
\* ancestor, and no other entity.
C23_AncestorQuery ==
  \A query \in AncestorQueries :
    /\ Dynamic_RunQuery(Now(-1), 1, query).exc = ""
    /\ Range(Dynamic_RunQuery(Now(-1), 1, query).resp.result)
         = UnderAncestor(query)

\* the strategies in the order key/kind/ancestor only, single property,
\* equality-only merge, general fallback
StrategyOrder ==
  <<"__KindQuery", "__SinglePropertyQuery", "__MergeJoinQuery",
    "__LastResortQuery">>

\* a query of a kind with one equality filter on a property that is not the
\* key, no order and no ancestor
OneEquality(query) ==
  /\ Len(query.filter) = 1
  /\ query.filter[1].op = "="
  /\ query.filter[1].property # "__key__"
  /\ query.order = <<>>
  /\ query.ancestor = <<>>

\* the encoded paths of the stored entities of the kind of the query whose
\* property has the value of its filter
WithValue(query) ==
  {r.path : r \in {x \in Rows(tables, TablePrefix(Ns0), "Entities") :
                     /\ x.kind = query.kind
                     /\ query.filter[1].property = "p"
                     /\ \E v \in x.entity.vals :
                          EncodeValue(v) = query.filter[1].value}}

\* C24: the plan of a query is that of the first strategy, in the order
\* key/kind/ancestor only, single property, equality-only merge, general
\* fallback, that accepts the query; a query of a kind with one equality
\* filter on one property, no order and no ancestor is planned by the single
\* property strategy and returns exactly the entities with that value.
C24_FirstStrategyPlans ==
  \A query \in PlanQueries :
    /\ \E i \in DOMAIN StrategyOrder :
         /\ Strategy(query) = StrategyOrder[i]
         /\ Plans(StrategyOrder[i], query)
         /\ \A j \in 1..(i - 1) : ~Plans(StrategyOrder[j], query)
    /\ OneEquality(query) =>
         /\ Strategy(query) = "__SinglePropertyQuery"
         /\ Dynamic_RunQuery(Now(-1), 1, query).exc = ""
         /\ Range(Dynamic_RunQuery(Now(-1), 1, query).resp.result)
              = WithValue(query)

\* a query with one equality filter has been run and has returned entities,
\* and not all of the kind
C24_Witness ==
  \E id \in DOMAIN served :
    /\ OneEquality(served[id].query)
    /\ served[id].out # <<>>
    /\ Range(served[id].out)
         # {r.path : r \in Rows(tables, TablePrefix(Ns0), "Entities")}

\* the cursor has read every row of its statement
Exhausted(id) ==
  \/ ~cursors[id].open
  \/ cursors[id].at = Len(cursors[id].rows)

\* n capped at the smaller of the limit of the query and _MAXIMUM_RESULTS
Capped(n, query) ==
  IF CountLimit(query).limit < n THEN CountLimit(query).limit ELSE n

\* C25: Count of a query is the number of distinct entities that RunQuery
\* and Next to exhaustion deliver for it, capped at the smaller of its limit
\* and 1000, also when an entity matches through several rows of a property
\* with several values.
C25_CountIsDelivered ==
  \A id \in DOMAIN served :
    Exhausted(id) =>
      /\ Dynamic_Count(Now(-1), 1, served[id].query).exc = ""
      /\ Dynamic_Count(Now(-1), 1, served[id].query).resp
           = <<Capped(Cardinality(Range(served[id].out)), served[id].query)>>

\* C26: at most one transaction is active: self.__transactions has at most
\* one entry, and it has an entry exactly when self.__current_transaction
\* is set.
C26_OneTransaction ==
  /\ Cardinality(DOMAIN transactions) <= 1
  /\ DOMAIN transactions # {} <=> current_transaction # 0

\* the cached remaining count of the prefix of the name space of kNew0
Remaining == IdMapGet(Now(-1), TablePrefix(Ns0))[2]

\* C27: __AllocateIds adds max(1000, size) to the durable counter of the
\* prefix exactly when the cached remaining count is less than size; when
\* remaining is at least size, also when it equals size, the range is
\* served from the cache and the durable counter is unchanged.
C27_RefillOnlyWhenShort ==
  current_transaction = 0 /\ TablePrefix(Ns0) \in DOMAIN durable.IdSeq =>
    \A size \in AllocateSizes :
      /\ Dynamic_AllocateIds(Now(-1), 1, kNew0, size).exc = ""
      /\ Dynamic_AllocateIds(Now(-1), 1, kNew0, size)
           .durable.IdSeq[TablePrefix(Ns0)]
           = IF Remaining < size
               THEN durable.IdSeq[TablePrefix(Ns0)] + BlockSize(size)
               ELSE durable.IdSeq[TablePrefix(Ns0)]
      /\ Remaining >= size =>
           Dynamic_AllocateIds(Now(-1), 1, kNew0, size).ret
             = IdMapGet(Now(-1), TablePrefix(Ns0))[1]

\* keys of one name space: a root, two descendants of it whose last
\* elements are of another kind and of the kind of the root, and another
\* root of the same kind
GroupKeys == {kRoot0, kChild0, kChildA, kSibling}

\* the names of the locks a call has acquired
TakenBy(S) == {l[1] : l \in S.locks \ locks}

\* the names of the locks the first Put, or the first Get, of the running
\* transaction acquires for a key
PutTakes(key) ==
  TakenBy(Dynamic_Put(Now(-1), hist.thread, Handle, <<Ent(key, 1)>>))

GetTakes(key) ==
  TakenBy(Dynamic_Get(Now(-1), hist.thread, Handle, <<key>>))

\* C28: the name of the lock a transaction acquires is determined by the
\* application and the root path element of the keys of its first
\* operation: keys of one entity group give the same name and keys of
\* different entity groups give different names, whatever the kinds of their
\* last path elements.
C28_LockNamesGroups ==
  Begun /\ ~inside_tx /\ locks = {} =>
    \A k1, k2 \in GroupKeys :
      /\ Cardinality(PutTakes(k1)) = 1
      /\ GetTakes(k1) = PutTakes(k1)
      /\ k1.path[1] = k2.path[1] <=> PutTakes(k1) = PutTakes(k2)

\* the first operation of a transaction has acquired one lock, that of the
\* entity group it has recorded for the transaction
EnteredBy(S) ==
  /\ S.exc = ""
  /\ S.inside_tx
  /\ S.transactions[Handle] # NoGroup
  /\ TakenBy(S) = {LockStr(GroupOf(S, Handle))}

\* the locks of the backend that this stub holds
HeldLocks(S) == {l[1] : l \in {x \in S.locks : x[2] = "self"}}

\* C29: the first Put, Get or Delete that carries the handle of a
\* transaction, whichever of the three it is, acquires the entity-group lock
\* once and records the entity group; later operations of the transaction
\* acquire no lock; the lock that was acquired is the one Commit or Rollback
\* releases.
C29_FirstOperationLocks ==
  Begun =>
    /\ ~inside_tx /\ locks = {} =>
         /\ EnteredBy(Dynamic_Put(Now(-1), hist.thread, Handle,
                                  <<Ent(kRoot0, 1)>>))
         /\ EnteredBy(Dynamic_Get(Now(-1), hist.thread, Handle, <<kRoot0>>))
         /\ EnteredBy(Dynamic_Delete(Now(-1), hist.thread, Handle,
                                     <<kRoot0>>))
    /\ inside_tx =>
         /\ HeldLocks(Now(-1)) = {LockStr(GroupOf(Now(-1), Handle))}
         /\ TakenBy(Dynamic_Put(Now(-1), hist.thread, Handle,
                                <<Ent(kRoot0, 1)>>)) = {}
         /\ TakenBy(Dynamic_Get(Now(-1), hist.thread, Handle, <<kRoot0>>))
              = {}
         /\ TakenBy(Dynamic_Delete(Now(-1), hist.thread, Handle, <<kRoot0>>))
              = {}
         /\ HeldLocks(Dynamic_Commit(Now(-1), hist.thread, Handle, <<>>, {}))
              = {}
         /\ HeldLocks(Dynamic_Rollback(Now(-1), hist.thread, Handle)) = {}

\* S, the state a Commit or Rollback has left, has no running transaction,
\* empty buffers and no lock of the backend, and the same caller begins a
\* transaction in it with a handle above every earlier one
Ended(S) ==
  /\ S.current_transaction = 0
  /\ S.tx_writes = EmptyFn
  /\ S.tx_deletes = {}
  /\ S.tx_actions = <<>>
  /\ HeldLocks(S) = {}
  /\ Dynamic_BeginTransaction([S EXCEPT !.exc = "", !.fault = -1],
                              hist.thread, OwnApp).exc = ""
  /\ Dynamic_BeginTransaction([S EXCEPT !.exc = "", !.fault = -1],
                              hist.thread, OwnApp).resp[1] >= next_tx_handle

\* C30: after Commit or Rollback of the running transaction has returned or
\* raised, no transaction is active, the write-set, the delete-set and the
\* queue of actions are empty, the entity-group lock is released, and a
\* following BeginTransaction of the caller succeeds with a handle greater
\* than every earlier handle.
C30_EndClearsTransaction ==
  Begun =>
    \A fault \in EndFaults :
      /\ \A order \in Orders(DOMAIN tx_writes) :
           Ended(Dynamic_Commit(Now(fault), hist.thread, Handle, order, {}))
      /\ Ended(Dynamic_Rollback(Now(fault), hist.thread, Handle))

LockInNext(S, t) == S.connection_lock

\* Next on cursor id reads its result stream: a row is fetched, or the
\* stream is found at its end
Fetches(id, count) ==
  LET c == cursors[id]
      d == Dynamic_Next(Now(-1), OwnApp, id, count)
  IN /\ d.exc = ""
     /\ c.open
     /\ d.cursors[id].at # c.at \/ ~d.cursors[id].open

\* C32: an operation that fetches rows from a result stream of the backend
\* connection holds the connection lock while it does so: the fetches of a
\* Next of one thread never fall between the statements another thread
\* issues under the lock.
C32_FetchUnderLock ==
  \A t \in Threads \ waiting, id \in DOMAIN cursors :
    Fetches(id, 1) => LockInNext(Now(-1), t).owner = t

\* the index rows the entities stored under a table prefix should have
RowsOfStored(tabs, prefix) ==
  UNION {IndexRows(r.entity) : r \in Rows(tabs, prefix, "Entities")}

\* C33: after any sequence of Put, Delete and Commit, with batches that may
\* span namespaces, the index table of every namespace holds exactly the
\* rows of the property values of the entities stored there: no row of an
\* earlier version of an entity and no row of an absent key.
C33_IndexMatchesEntities ==
  \A prefix \in DOMAIN tables :
    Rows(tables, prefix, "EntitiesByProperty") = RowsOfStored(tables, prefix)

\* C34: two different (app, name_space) pairs never get the same table
\* prefix, so that the entity found under a key is an entity of the name
\* space of the key.
C34_NamespacesApart ==
  /\ \A a \in namespaces, b \in namespaces :
       a # b => TablePrefix(a) # TablePrefix(b)
  /\ \A key \in NameKeys :
       Lookup(tables, key) # <<>> => NsOf(Lookup(tables, key)[1].key) = NsOf(key)

\* a cursor that still has a result to give: it is within its limit, and
\* the path it has in hand, or the path of a row of its stream that does
\* not lie behind a row beyond the end compiled cursor, was not seen
Undelivered(c) ==
  /\ c.open
  /\ c.limit < 0 \/ Cardinality(c.seen) < c.limit
  /\ \/ c.next_result # <<>> /\ c.next_result[1] \notin c.seen
     \/ \E i \in (c.at + 1)..Len(c.rows) :
          /\ c.rows[i].path \notin c.seen
          /\ \A j \in (c.at + 1)..i : ~BeyondEnd(c, c.rows[j].position)

\* the batch S has returned is empty and reports no more results
EmptyBatch(S) == S.resp.result = <<>> /\ ~S.resp.more_results

\* the batch S has returned for its cursor is an honest one: more_results
\* is true if a result is left, and after more_results false every Next on
\* the cursor returns nothing
HonestBatch(S) ==
  S.exc = "" =>
    /\ Undelivered(S.cursors[S.resp.cursor]) => S.resp.more_results
    /\ ~S.resp.more_results =>
         \A count \in BatchCounts :
           EmptyBatch(Dynamic_Next(S, OwnApp, S.resp.cursor, count))

\* C35: a batch that leaves a unique result within the limit of the query
\* undelivered reports more_results true; after a batch that reports
\* more_results false every later Next on the cursor returns an empty batch.
C35_MoreResultsHonest ==
  /\ \A id \in DOMAIN cursors, count \in BatchCounts :
       HonestBatch(Dynamic_Next(Now(-1), OwnApp, id, count))
  /\ \A query \in MoreQueries :
       HonestBatch(Dynamic_RunQuery(Now(-1), 1, query))

\* a Next returns the last results of a cursor in a batch shorter than its
\* count, and the cursor had more to give before
C35_Witness ==
  \E id \in DOMAIN cursors :
    /\ Undelivered(cursors[id])
    /\ Dynamic_Next(Now(-1), OwnApp, id, 2).exc = ""
    /\ Len(Dynamic_Next(Now(-1), OwnApp, id, 2).resp.result) = 1
    /\ ~Dynamic_Next(Now(-1), OwnApp, id, 2).resp.more_results

\* C36: the write-set and the delete-set of the transaction are disjoint in
\* every reachable state, and both are empty when no transaction is active.
C36_WritesAndDeletesApart ==
  /\ DOMAIN tx_writes \cap tx_deletes = {}
  /\ current_transaction = 0 => tx_writes = EmptyFn /\ tx_deletes = {}

\* a transaction with a pending Put and a pending Delete, in which a Put of
\* the deleted key takes the key out of the delete-set
C36_Witness ==
  /\ current_transaction # 0
  /\ kRoot0 \in tx_deletes
  /\ kRoot1 \in DOMAIN tx_writes
  /\ Dynamic_Put(Now(-1), 1, Handle, <<Ent(kRoot0, 1)>>).exc = ""
  /\ kRoot0 \in DOMAIN Dynamic_Put(Now(-1), 1, Handle, <<Ent(kRoot0, 1)>>).tx_writes
  /\ kRoot0 \notin Dynamic_Put(Now(-1), 1, Handle, <<Ent(kRoot0, 1)>>).tx_deletes

\* C37: when two threads call UpdateIndex on one index concurrently, every
\* change of the state of an index is a legal transition: the check and the
\* write of one call are not separated by the write of the other.
C37_RaceKeepsLegal ==
  [][\A i \in 1..Len(indexes) :
       /\ i <= Len(indexes')
       /\ indexes'[i].id = indexes[i].id
       /\ indexes'[i].state # indexes[i].state
       => LegalMove(indexes[i].state, indexes'[i].state)]_vars

\* queries of a kind that combine a filter on __key__ with a filter or an
\* order on the property p
KeyedQueries ==
  {Filtered(Query(0, <<>>, <<>>, -1, -1, -1),
            <<Filter("__key__", op, EncodePath(kId1.path)), filter>>) :
     op \in {"<", ">"},
     filter \in {Filter("p", "=", EncodeValue(1)),
                 Filter("p", ">", EncodeValue(1))}}
  \cup {Filtered(Query(0, <<>>, Order("p", "ASCENDING"), -1, -1, -1),
                 <<Filter("__key__", op, EncodePath(kId1.path))>>) :
          op \in {"<", ">"}}

\* the stored entity of an encoded path satisfies a filter
Satisfies(path, filter) ==
  IF filter.property = "__key__" THEN Holds(filter.op, path, filter.value)
  ELSE \E r \in Rows(tables, TablePrefix(Ns0), "Entities") :
         /\ r.path = path
         /\ filter.property = "p"
         /\ \E v \in r.entity.vals : Holds(filter.op, EncodeValue(v), filter.value)

\* every entity a query returns satisfies every filter of the query
EnforcesFilters(query) ==
  Dynamic_RunQuery(Now(-1), 1, query).exc = "" =>
    \A path \in Range(Dynamic_RunQuery(Now(-1), 1, query).resp.result) :
      \A i \in DOMAIN query.filter : Satisfies(path, query.filter[i])

\* C38: the plan chosen for a query enforces every filter of the query: a
\* query that combines a filter on __key__ with a filter or an order on one
\* other property returns only entities that satisfy both.
C38_PlanEnforcesFilters ==
  \A query \in KeyedQueries : EnforcesFilters(query)

\* C39: after every CreateIndex, UpdateIndex and DeleteIndex call, whether
\* it succeeded or failed, the composite indexes of the app in memory are
\* those of the index record persisted for the app.
C39_MapMatchesRecord ==
  {indexes[i] : i \in {j \in 1..Len(indexes) : indexes[j].app_id = OwnApp}}
    = Range(PersistedIndexes(Now(-1), OwnApp))

\* a key whose path element has an id and a name
kBoth == Key(OwnApp, Ns0[2], <<Elem(KindA, TRUE, 1, TRUE, NameM)>>)

\* Put requests whose last entity is rejected: its key is malformed or of
\* another application
RejectedPuts ==
  {<<Ent(kBoth, 1)>>, <<Ent(kOther, 1)>>,
   <<Ent(kRoot0, 2), Ent(kBoth, 1)>>, <<Ent(kRoot0, 2), Ent(kOther, 1)>>,
   <<Ent(kNew0, 1), Ent(kOther, 1)>>}

\* the call that ended in state S was rejected for a key of the request
Rejected(S) == S.exc \in {"BadRequestError", "BAD_REQUEST"}

\* the call that ended in state S has changed no committed entity row and
\* neither the write-set nor the delete-set
NoEffect(S) ==
  /\ Content(S.durable.tables) = Content(durable.tables)
  /\ S.tx_writes = tx_writes
  /\ S.tx_deletes = tx_deletes

\* C40: a Put that is rejected because one of its entities has a malformed
\* key or the id of another application has no effect for any entity of the
\* call: the durable store is unchanged and, inside a transaction, so are
\* the write-set and the delete-set.
C40_RejectedPutHasNoEffect ==
  \A entities \in RejectedPuts :
    Rejected(Dynamic_Put(Now(-1), 1, Handle, entities))
      => NoEffect(Dynamic_Put(Now(-1), 1, Handle, entities))

====
